---- MODULE Spec2Model ----
(***************************************************************************)
(* A model of the vimwiki parser front end (page / block_component /       *)
(* inline_component / external_file_link), of List::normalize and of the   *)
(* element tree (ElementTree::from_page and its queries).                  *)
(*                                                                         *)
(* Text is a sequence of one-character strings; a position is the number   *)
(* of characters before it (0 = start of input).                           *)
(***************************************************************************)
EXTENDS Integers, Sequences, FiniteSets, TLC

VARIABLES
    \* ---- parse_str / page / block_component (parsers/vimwiki/mod.rs and the
    \*      earlier lang/vimwiki/mod.rs)
    grammar,      \* which of the two block_component definitions is running
    input,        \* the text handed to parse_str
    pc,           \* "many0" | "all_consuming" | "ok" | "err"
    rest,         \* position of the remaining input of many0
    altIdx,       \* alternative of block_component's alt tried next
    tried,        \* alternatives that failed at position rest, in order
    blocks,       \* the block components many0 has accumulated
    errPos,       \* position carried by the error parse_str returns
    \* ---- inline_component_container / inline_component
    iinput,       \* the text handed to inline_component_container
    ipc,          \* "many1" | "ok" | "err"
    ipos,         \* position of the remaining input of many1
    ialt,         \* alternative of inline_component's alt tried next
    ifailed,      \* alternatives that failed at position ipos, in order
    ielems,       \* the inline components many1 has accumulated
    \* ---- external_file_link (links/external.rs)
    linput,       \* the text handed to external_file_link
    lpc,          \* "call" | "returned"
    lresult,      \* what external_file_link returned
    \* ---- List::normalize (components/lists/mod.rs)
    items,        \* List.items of the list normalize is called on
    items0,       \* the items the list was constructed with
    ncalls,       \* number of normalize calls made so far
    \* ---- ElementTree (tree.rs)
    tpage,        \* page.elements of the page the tree is built from
    nodes,        \* ElementTree.nodes: id -> ElementNode
    root_nodes,   \* ElementTree.root_nodes
    counter,      \* from_page's id counter
    stack,        \* the add_*_element calls in progress, innermost last
    tnext,        \* index of the page element from_page's loop is at
    tpc,          \* "idle" | "building" | "built"
    qop,          \* the query made last ("none" before the first)
    qpc,          \* "none" | "descending" | "returned"
    qpos,         \* the position a position query was made with
    qnode,        \* the node id a node query was made with, or curr
    qresult,      \* what the query returned: ids of the nodes, in order
    \* ---- two from_page calls on one page, and two readers of a tree
    bpage,        \* page.elements of the page both builds borrow
    builds,       \* per from_page call: its instance and its progress
    counters,     \* the id counters, one cell per from_page call
    readers,      \* per reader: its find_deepest_at call on the first tree
    \* ---- Blockquote::line_groups (blockquotes.rs)
    bqlines,      \* the lines of the Blockquote
    bqgroups,     \* what line_groups() yielded, once called
    bqcnt,        \* what line_group_cnt() returned, once called
    \* ---- HtmlConfig (lang/output/html/config.rs)
    config,       \* the HtmlConfig: its wikis and its runtime (wiki_index, page)
    called,       \* the call made on the configuration and what it returned, once made
    \* ---- DefinitionList::try_from (vimwiki-server data/elements/blocks/definitions.rs)
    dlist,        \* the parsed DefinitionList handed to try_from
    failing,      \* the conversion or commit that fails, if one does
    database,     \* the committed entities; the id of an entity is its place
    convert       \* the locals of try_from, its position and its result

pageVars == <<grammar, input, pc, rest, altIdx, tried, blocks, errPos>>
normVars == <<items, items0, ncalls>>
inlineVars == <<iinput, ipc, ipos, ialt, ifailed, ielems>>
linkVars == <<linput, lpc, lresult>>
buildVars == <<tpage, nodes, root_nodes, counter, stack, tnext, tpc>>
queryVars == <<qop, qpc, qpos, qnode, qresult>>
treeVars == <<buildVars, queryVars>>
concVars == <<bpage, builds, counters, readers>>
quoteVars == <<bqlines, bqgroups, bqcnt>>
configVars == <<config, called>>
convertVars == <<dlist, failing, database, convert>>
extVars == <<concVars, quoteVars, configVars, convertVars>>
coreVars == <<pageVars, inlineVars, linkVars, normVars, treeVars>>
vars == <<pageVars, inlineVars, linkVars, normVars, treeVars, extVars>>
notPageVars == <<inlineVars, linkVars, normVars, treeVars, extVars>>
notInlineVars == <<pageVars, linkVars, normVars, treeVars, extVars>>
notLinkVars == <<pageVars, inlineVars, normVars, treeVars, extVars>>
notNormVars == <<pageVars, inlineVars, linkVars, treeVars, extVars>>
notTreeVars == <<pageVars, inlineVars, linkVars, normVars, extVars>>
notConcVars == <<coreVars, quoteVars, configVars, convertVars>>
notQuoteVars == <<coreVars, concVars, configVars, convertVars>>
notConfigVars == <<coreVars, concVars, quoteVars, convertVars>>
notConvertVars == <<coreVars, concVars, quoteVars, configVars>>

\* No page is being built twice.
IdleBuilds ==
    /\ bpage = <<>>
    /\ builds = <<>>
    /\ counters = <<>>
    /\ readers = <<>>

\* Blockquote::line_groups (blockquotes.rs): not in use.
IdleQuote ==
    /\ bqlines = <<>>
    /\ bqgroups = <<>>
    /\ bqcnt = <<>>

\* HtmlConfig (lang/output/html/config.rs): not in use.
IdleConfig ==
    /\ config = [wikis |-> <<>>, runtime |-> [wiki_index |-> <<>>, page |-> <<>>]]
    /\ called = <<>>

\* DefinitionList::try_from (vimwiki-server data/elements/blocks/definitions.rs): not in use.
IdleConvert ==
    /\ dlist = <<>>
    /\ failing = <<>>
    /\ database = <<>>
    /\ convert = <<>>

IdleExt == IdleBuilds /\ IdleQuote /\ IdleConfig /\ IdleConvert

\* No page has been handed to ElementTree::from_page.
IdleTree ==
    /\ tpage = <<>>
    /\ nodes = <<>>
    /\ root_nodes = <<>>
    /\ counter = 0
    /\ stack = <<>>
    /\ tnext = 1
    /\ tpc = "idle"
    /\ qop = "none"
    /\ qpc = "none"
    /\ qpos = <<0, 0>>
    /\ qnode = 0
    /\ qresult = <<>>

(***************************************************************************)
(* Bounds                                                                  *)
(***************************************************************************)
MaxLines == 2
MaxFragments == 3
MaxBody == 5
MaxItems == 3
MaxCalls == 2
MaxBlocks == 2
MaxQuoteLines == 4

(***************************************************************************)
(* Sequences helpers                                                       *)
(***************************************************************************)
SeqsUpTo(S, n) == UNION {[1..k -> S] : k \in 0..n}


(***************************************************************************)
(* Text and positions                                                      *)
(***************************************************************************)
NL == "\n"

IsSpace(c) == c \in {" ", "\t"}

\* The position of the line ending at or after p, or the end of the text.
RECURSIVE LineEnd(_, _)
LineEnd(s, p) ==
    IF p >= Len(s) \/ s[p + 1] = NL THEN p ELSE LineEnd(s, p + 1)

\* The text of the line that starts at p, without its line ending.
Line(s, p) == SubSeq(s, p + 1, LineEnd(s, p))

\* The position after the line that starts at p and after its line ending,
\* if it has one (end of line or end of input).
AfterLine(s, p) ==
    IF LineEnd(s, p) < Len(s) THEN LineEnd(s, p) + 1 ELSE LineEnd(s, p)

StartsWith(l, pre) ==
    Len(l) >= Len(pre) /\ SubSeq(l, 1, Len(pre)) = pre

EndsWith(l, suf) ==
    Len(l) >= Len(suf) /\ SubSeq(l, Len(l) - Len(suf) + 1, Len(l)) = suf

Repeat(c, k) == [i \in 1..k |-> c]

\* IResult: Ok((remaining input, _)) or Err(Error(input, _)).
Ok(q) == [ok |-> TRUE, rest |-> q]
Err(p) == [ok |-> FALSE, rest |-> p]

(***************************************************************************)
(* Inline recognizers.  Each works within the line it starts on; a failed  *)
(* one returns, as nom errors do, the position at which it failed.         *)
(***************************************************************************)
\* tag(t): the text t at position p.
tag(s, p, t) ==
    IF p + Len(t) <= Len(s) /\ SubSeq(s, p + 1, p + Len(t)) = t
    THEN Ok(p + Len(t))
    ELSE Err(p)

AtEndOfLine(s, p) == p >= Len(s) \/ s[p + 1] = NL

\* The position of the first c at or after p on the line, or the line's end.
RECURSIVE ScanTo(_, _, _)
ScanTo(s, p, c) ==
    IF AtEndOfLine(s, p) \/ s[p + 1] = c THEN p ELSE ScanTo(s, p + 1, c)

\* Delimited, given the position e the scan for the closing c stopped at.
DelimitedResult(s, p, c, e) ==
    IF AtEndOfLine(s, p) \/ s[p + 1] # c THEN Err(p)
    ELSE IF AtEndOfLine(s, e) THEN Err(e)
    ELSE IF e = p + 1 THEN Err(e)
    ELSE Ok(e + 1)

\* c, a non-empty run without c, and c again, all on one line.
Delimited(s, p, c) == DelimitedResult(s, p, c, ScanTo(s, p + 1, c))

\* math::math_inline: $formula$
math_inline(s, p) == Delimited(s, p, "$")

\* typefaces::decorated_text: *bold text*
decorated_text(s, p) == Delimited(s, p, "*")

IsTagNameChar(c) == ~IsSpace(c) /\ c # ":" /\ c # NL

RECURSIVE TagNameEnd(_, _)
TagNameEnd(s, p) ==
    IF p < Len(s) /\ IsTagNameChar(s[p + 1]) THEN TagNameEnd(s, p + 1) ELSE p

\* Whether a tag name runs from p to e and is closed by ":" there.
IsTagName(s, p, e) == e > p /\ e < Len(s) /\ s[e + 1] = ":"

RECURSIVE TagsEnd(_, _)

\* TagsEnd, given the position e the characters of a name from p on end at.
NextTag(s, p, e) == IF IsTagName(s, p, e) THEN TagsEnd(s, e + 1) ELSE p

\* The position after the last "name:" of the run of them that starts at p.
TagsEnd(s, p) == NextTag(s, p, TagNameEnd(s, p))

\* tag_sequence, given the position e the run of "name:" ends at.
TagSequenceResult(s, p, e) ==
    IF p >= Len(s) \/ s[p + 1] # ":" THEN Err(p)
    ELSE IF e = p + 1 THEN Err(e)
    ELSE Ok(e)

\* tags::tag_sequence: :tag1:tag2:  (block_component and inline_component
\* both call it).
tag_sequence(s, p) == TagSequenceResult(s, p, TagsEnd(s, p + 1))

Keywords == { <<"T", "O", "D", "O">>, <<"D", "O", "N", "E">> }

IsWordChar(c) == c \in {"a", "T", "O", "D", "N", "E"}

\* Whether the keyword k stands at p as a token of its own.
IsKeywordAt(s, p, k) ==
    /\ tag(s, p, k).ok
    /\ (p = 0 \/ ~IsWordChar(s[p]))
    /\ (p + Len(k) = Len(s) \/ ~IsWordChar(s[p + Len(k) + 1]))

KeywordResult(p, found) ==
    IF found = {} THEN Err(p) ELSE Ok(p + Len(CHOOSE k \in found : TRUE))

\* typefaces::keyword: a word of the vocabulary that is a token of its own.
keyword(s, p) == KeywordResult(p, { k \in Keywords : IsKeywordAt(s, p, k) })

(***************************************************************************)
(* links/external.rs                                                       *)
(***************************************************************************)
\* not(alt((tag("|"), tag("]]"))))
not_end(s, p) ==
    \A t \in { <<"|">>, <<"]", "]">> } : ~tag(s, p, t).ok

\* take_line_while(not_end): the characters of the line up to the first at
\* which not_end fails.
RECURSIVE SegmentEnd(_, _)
SegmentEnd(s, p) ==
    IF ~AtEndOfLine(s, p) /\ not_end(s, p) THEN SegmentEnd(s, p + 1) ELSE p

\* take_line_while1: an error unless at least one character was taken.
AtLeastOne(p, e) == IF e > p THEN Ok(e) ELSE Err(p)

\* take_segment with not_end failing on "|" alone: "]]" is read as text.
take_segment_past_close(s, p) == AtLeastOne(p, ScanTo(s, p, "|"))

\* take_while1(not_end) in place of take_line_while1: the segment runs on
\* over line endings.
RECURSIVE SegmentEndAcrossLines(_, _)
SegmentEndAcrossLines(s, p) ==
    IF p < Len(s) /\ not_end(s, p) THEN SegmentEndAcrossLines(s, p + 1) ELSE p

take_segment_across_lines(s, p) == AtLeastOne(p, SegmentEndAcrossLines(s, p))

\* take_segment: take_line_while1(not_end).
take_segment(s, p) == AtLeastOne(p, SegmentEnd(s, p))

None == <<>>
Some(x) == <<x>>

\* The "|" taken also when no description follows it: take_segment's
\* failure is read as an empty description.
OptDescriptionOrEmpty(s, q, d) ==
    IF q < Len(s) /\ s[q + 1] = "|" THEN (IF d.ok THEN d.rest ELSE q + 1)
    ELSE q

\* opt(preceded(tag("|"), ..)) around the result d of take_segment after q.
OptDescription(s, q, d) ==
    IF q < Len(s) /\ s[q + 1] = "|" /\ d.ok THEN d.rest ELSE q

\* opt(preceded(tag("|"), take_segment)): where the description ends, or
\* the position q itself when there is none.
DescriptionEnd(s, q) == OptDescription(s, q, take_segment(s, q + 1))

\* The pair (PathBuf, Option<Description>) of a path read from p to q and a
\* description read up to e.
PathAndDescription(s, p, q, e) ==
    [ok |-> TRUE, rest |-> e,
     path |-> SubSeq(s, p + 1, q),
     description |-> IF e > q THEN Some(SubSeq(s, q + 2, e)) ELSE None]

\* pair(..): the description is looked for after the path t, if t is one.
AfterPath(s, p, t) ==
    IF ~t.ok THEN [ok |-> FALSE, rest |-> t.rest]
    ELSE PathAndDescription(s, p, t.rest, DescriptionEnd(s, t.rest))

\* take_path_and_description: pair(take_segment, opt(preceded("|", ..))).
take_path_and_description(s, p) == AfterPath(s, p, take_segment(s, p))

\* The scheme keywords, in the order external_file_link's alt tries them.
SchemeTags ==
    << [scheme |-> "Local", text |-> <<"l", "o", "c", "a", "l", ":">>],
       [scheme |-> "File", text |-> <<"f", "i", "l", "e", ":">>],
       [scheme |-> "Absolute", text |-> <<"/", "/">>] >>

\* ExternalFileLink::new(scheme, p, d) for the pair r, after the keyword.
NewExternalFileLink(k, p, matched, r) ==
    IF ~matched THEN [ok |-> FALSE, rest |-> p]
    ELSE IF ~r.ok THEN [ok |-> FALSE, rest |-> r.rest]
    ELSE [ok |-> TRUE, rest |-> r.rest,
          link |-> [scheme |-> SchemeTags[k].scheme,
                    path |-> r.path,
                    description |-> r.description]]

\* preceded(tag(keyword), take_external_file_link(scheme)) for alternative k.
SchemeAlternative(s, p, k) ==
    NewExternalFileLink(k, p, tag(s, p, SchemeTags[k].text).ok,
        take_path_and_description(s, p + Len(SchemeTags[k].text)))

\* alt: the first of two alternatives that succeeds.
FirstOk(a, b) == IF a.ok THEN a ELSE b

\* alt over the three schemes, from alternative k on.
RECURSIVE SchemeAlt(_, _, _)
SchemeAlt(s, p, k) ==
    IF k > Len(SchemeTags) THEN [ok |-> FALSE, rest |-> p]
    ELSE FirstOk(SchemeAlternative(s, p, k), SchemeAlt(s, p, k + 1))

\* What follows the scheme alternatives' result r: "]]", and le(inner)'s
\* region from the position before "[[" to the position after "]]".
CloseLink(s, p, r) ==
    IF ~tag(s, p, <<"[", "[">>).ok THEN [ok |-> FALSE, rest |-> p]
    ELSE IF ~r.ok THEN [ok |-> FALSE, rest |-> r.rest]
    ELSE IF ~tag(s, r.rest, <<"]", "]">>).ok
         THEN [ok |-> FALSE, rest |-> r.rest]
    ELSE [ok |-> TRUE, rest |-> r.rest + 2,
          link |-> r.link,
          region |-> [start |-> p, end |-> r.rest + 2]]

\* external_file_link: "[[", the scheme alternatives, "]]".
external_file_link(s, p) == CloseLink(s, p, SchemeAlt(s, p + 2, 1))

HasScheme(path) ==
    \/ \E i \in 1..Len(path) : path[i] = ":"
    \/ StartsWith(path, <<"/", "/">>)

CloseWikiLink(s, p, r) ==
    IF ~tag(s, p, <<"[", "[">>).ok THEN Err(p)
    ELSE IF ~r.ok THEN Err(r.rest)
    ELSE IF HasScheme(r.path) THEN Err(p + 2)
    ELSE IF ~tag(s, r.rest, <<"]", "]">>).ok THEN Err(r.rest)
    ELSE Ok(r.rest + 2)

\* links::wiki_link: [[path]] or [[path|description]], the path naming a
\* page of the wiki and so carrying no scheme.
wiki_link(s, p) == CloseWikiLink(s, p, take_path_and_description(s, p + 2))

\* The link of a link kind's result, without what the kind adds to it.
AsLink(r) == [ok |-> r.ok, rest |-> r.rest]

\* links::link: the link kinds in turn.  Inter-wiki, diary, raw and
\* transclusion links open with "wiki<n>:", "diary:", a URI scheme or "{{",
\* which no text of this model contains; they are left out.
link(s, p) == FirstOk(wiki_link(s, p), AsLink(external_file_link(s, p)))

\* Whether one of the inline elements other than text starts at p.
StartsInlineElement(s, p) ==
    \/ math_inline(s, p).ok
    \/ tag_sequence(s, p).ok
    \/ link(s, p).ok
    \/ decorated_text(s, p).ok
    \/ keyword(s, p).ok

RECURSIVE TextEnd(_, _)
TextEnd(s, p) ==
    IF ~AtEndOfLine(s, p) /\ ~StartsInlineElement(s, p)
    THEN TextEnd(s, p + 1)
    ELSE p

\* typefaces::text: the characters up to the next inline element or the end
\* of the line, at least one.
text(s, p) == AtLeastOne(p, TextEnd(s, p))

(***************************************************************************)
(* Block recognizers.  Each is applied at the start of a line and, when it *)
(* succeeds, consumes whole lines.                                         *)
(***************************************************************************)
MaxHeaderLevel == 6

IsHeaderLine(l) ==
    \E k \in 1..MaxHeaderLevel :
        /\ Len(l) >= 2 * k + 1
        /\ StartsWith(l, Repeat("=", k))
        /\ EndsWith(l, Repeat("=", k))
        /\ l[k + 1] # "="
        /\ l[Len(l) - k] # "="

IsBlankLine(l) == \A i \in 1..Len(l) : IsSpace(l[i])

IsRowLine(l) == Len(l) >= 2 /\ l[1] = "|" /\ l[Len(l)] = "|"

IsQuoteLine(l) == Len(l) >= 1 /\ l[1] = ">"

MinDividerLen == 4

IsDividerLine(l) ==
    Len(l) >= MinDividerLen /\ \A i \in 1..Len(l) : l[i] = "-"

LineIs(what, l) ==
    CASE what = "row" -> IsRowLine(l)
      [] what = "quote" -> IsQuoteLine(l)

\* The position after the last of the consecutive lines from p on that are
\* `what` (p itself when the line at p is not).
RECURSIVE LinesWhile(_, _, _)
LinesWhile(s, p, what) ==
    IF p < Len(s) /\ LineIs(what, Line(s, p))
    THEN LinesWhile(s, AfterLine(s, p), what)
    ELSE p

Many1Lines(s, p, what) ==
    IF LinesWhile(s, p, what) > p THEN Ok(LinesWhile(s, p, what)) ELSE Err(p)

\* The position after the first line from p on that is `close`.
RECURSIVE FindClose(_, _, _)
FindClose(s, p, close) ==
    IF p >= Len(s) THEN Err(p)
    ELSE IF Line(s, p) = close THEN Ok(AfterLine(s, p))
    ELSE FindClose(s, AfterLine(s, p), close)

Fenced(s, p, open, close) ==
    IF p < Len(s) /\ StartsWith(Line(s, p), open)
    THEN IF FindClose(s, AfterLine(s, p), close).ok
         THEN FindClose(s, AfterLine(s, p), close)
         ELSE Err(p)
    ELSE Err(p)

header(s, p) ==
    IF p < Len(s) /\ IsHeaderLine(Line(s, p)) THEN Ok(AfterLine(s, p)) ELSE Err(p)

table(s, p) == Many1Lines(s, p, "row")

preformatted_text(s, p) == Fenced(s, p, <<"{", "{", "{">>, <<"}", "}", "}">>)

math_block(s, p) == Fenced(s, p, <<"{", "{", "$">>, <<"}", "}", "$">>)

blockquote(s, p) == Many1Lines(s, p, "quote")

divider(s, p) ==
    IF p < Len(s) /\ IsDividerLine(Line(s, p)) THEN Ok(AfterLine(s, p)) ELSE Err(p)

\* utils::blank_line: a line of nothing but spaces and tabs, with its ending.
utils_blank_line(s, p) ==
    IF p < Len(s) /\ IsBlankLine(Line(s, p)) THEN Ok(AfterLine(s, p)) ELSE Err(p)

\* utils::non_blank_line: any line with a character that is no space or tab.
utils_non_blank_line(s, p) ==
    IF p < Len(s) /\ ~IsBlankLine(Line(s, p)) THEN Ok(AfterLine(s, p)) ELSE Err(p)

\* A line a paragraph continues on: not indented, not blank, and not the
\* start of one of the other block constructs.
RECURSIVE ParagraphEnd(_, _)
ParagraphEnd(s, p) ==
    IF /\ p < Len(s)
       /\ ~IsBlankLine(Line(s, p))
       /\ ~IsSpace(Line(s, p)[1])
       /\ ~header(s, p).ok
       /\ ~table(s, p).ok
       /\ ~preformatted_text(s, p).ok
       /\ ~math_block(s, p).ok
       /\ ~blockquote(s, p).ok
       /\ ~divider(s, p).ok
       /\ ~tag_sequence(s, p).ok
    THEN ParagraphEnd(s, AfterLine(s, p))
    ELSE p

paragraph(s, p) ==
    IF ParagraphEnd(s, p) > p THEN Ok(ParagraphEnd(s, p)) ELSE Err(p)

(***************************************************************************)
(* parse_str / page / block_component                                      *)
(***************************************************************************)
\* block_component with its last alternative, non_blank_line, left out.
block_component_no_catch_all ==
    << "Header", "Paragraph", "Table", "PreformattedText", "MathBlock",
       "Blockquote", "Divider", "TagSequence", "EmptyLine" >>

\* The alternatives of block_component's alt, in the order they are written.
block_component ==
    << "Header", "Paragraph", "Table", "PreformattedText", "MathBlock",
       "Blockquote", "Divider", "TagSequence", "EmptyLine",
       "UnrecognizedLine" >>

\* block_component of lang/vimwiki/mod.rs: alt((header, header)).
block_component_headers == << "Header", "Header" >>

Alternatives(g) ==
    IF g = "parsers" THEN block_component ELSE block_component_headers

\* One alternative applied to the text s at position p.
Recognize(kind, s, p) ==
    CASE kind = "Header" -> header(s, p)
      [] kind = "Paragraph" -> paragraph(s, p)
      [] kind = "Table" -> table(s, p)
      [] kind = "PreformattedText" -> preformatted_text(s, p)
      [] kind = "MathBlock" -> math_block(s, p)
      [] kind = "Blockquote" -> blockquote(s, p)
      [] kind = "Divider" -> divider(s, p)
      [] kind = "TagSequence" -> tag_sequence(s, p)
      [] kind = "EmptyLine" -> utils_blank_line(s, p)
      [] kind = "UnrecognizedLine" -> utils_non_blank_line(s, p)

\* LC::from((component, pos)): the component with the region it was parsed
\* from, pos being the position taken before the rule consumed anything.
LC(kind, pos, end, failed) ==
    [kind |-> kind, start |-> pos, end |-> end, failed |-> failed]

\* page without all_consuming: many0's result is returned as it is.
all_consuming_dropped(s, q) == Ok(q)

\* all_consuming whose error carries the whole input, not the remainder.
all_consuming_whole_input(s, q) == IF q = Len(s) THEN Ok(q) ELSE Err(0)

\* all_consuming: fails with the remaining input unless nothing remains.
all_consuming(s, q) == IF q = Len(s) THEN Ok(q) ELSE Err(q)

\* LangParserError::from((input, x)): the position of the error's input.
LangParserError(e) == e.rest

LineSamples ==
    { <<"=", "a", "=">>, <<"a">>, <<"|", "a", "|">>,
      <<"{", "{", "{">>, <<"}", "}", "}">>,
      <<"{", "{", "$">>, <<"}", "}", "$">>,
      <<">", "a">>, <<"-", "-", "-", "-">>, <<":", "a", ":">>,
      <<>>, <<" ">>, <<" ", "a">> }

\* The lines joined by line endings; a text that ends with a line ending is
\* one whose last line is the empty line.
RECURSIVE JoinLines(_)
JoinLines(ls) ==
    IF Len(ls) = 0 THEN <<>>
    ELSE IF Len(ls) = 1 THEN ls[1]
    ELSE ls[1] \o <<NL>> \o JoinLines(Tail(ls))

Inputs == { JoinLines(ls) : ls \in SeqsUpTo(LineSamples, MaxLines) }

IdlePage ==
    /\ grammar = "parsers"
    /\ input = <<>>
    /\ pc = "idle"
    /\ rest = 0
    /\ altIdx = 1
    /\ tried = <<>>
    /\ blocks = <<>>
    /\ errPos = 0

InitPage ==
    /\ grammar \in {"parsers", "legacy"}
    /\ input \in Inputs
    /\ pc = "many0"
    /\ rest = 0
    /\ altIdx = 1
    /\ tried = <<>>
    /\ blocks = <<>>
    /\ errPos = 0

\* alt: the alternative fails, the next one is tried on the same input.
BlockAlternativeErr ==
    /\ pc = "many0"
    /\ altIdx <= Len(Alternatives(grammar))
    /\ ~Recognize(Alternatives(grammar)[altIdx], input, rest).ok
    /\ altIdx' = altIdx + 1
    /\ tried' = Append(tried, Alternatives(grammar)[altIdx])
    /\ UNCHANGED <<grammar, input, pc, rest, blocks, errPos>>
    /\ UNCHANGED notPageVars

\* alt: the alternative succeeds and decides the block; many0 keeps it and
\* goes on with the remaining input, unless nothing was consumed.
BlockAlternativeOk ==
    /\ pc = "many0"
    /\ altIdx <= Len(Alternatives(grammar))
    /\ \E kind \in {Alternatives(grammar)[altIdx]} :
       \E r \in {Recognize(kind, input, rest)} :
          /\ r.ok
          /\ IF r.rest = rest
             THEN /\ pc' = "err"
                  /\ errPos' = LangParserError(Err(rest))
                  /\ UNCHANGED <<rest, altIdx, tried, blocks>>
             ELSE /\ blocks' = Append(blocks, LC(kind, rest, r.rest, tried))
                  /\ rest' = r.rest
                  /\ altIdx' = 1
                  /\ tried' = <<>>
                  /\ UNCHANGED <<pc, errPos>>
    /\ UNCHANGED <<grammar, input>>
    /\ UNCHANGED notPageVars

\* many0: every alternative failed; the blocks so far are the result.
Many0End ==
    /\ pc = "many0"
    /\ altIdx > Len(Alternatives(grammar))
    /\ pc' = "all_consuming"
    /\ UNCHANGED <<grammar, input, rest, altIdx, tried, blocks, errPos>>
    /\ UNCHANGED notPageVars

\* all_consuming, then map(.., Page::new) or map_err(LangParserError::from).
AllConsuming ==
    /\ pc = "all_consuming"
    /\ IF all_consuming(input, rest).ok
       THEN pc' = "ok" /\ UNCHANGED errPos
       ELSE pc' = "err" /\ errPos' = LangParserError(all_consuming(input, rest))
    /\ UNCHANGED <<grammar, input, rest, altIdx, tried, blocks>>
    /\ UNCHANGED notPageVars

NextPage ==
    \/ BlockAlternativeErr
    \/ BlockAlternativeOk
    \/ Many0End
    \/ AllConsuming

IdleNormalize ==
    /\ items = <<>>
    /\ items0 = <<>>
    /\ ncalls = 0

IdleInline ==
    /\ iinput = <<>>
    /\ ipc = "idle"
    /\ ipos = 0
    /\ ialt = 1
    /\ ifailed = <<>>
    /\ ielems = <<>>

IdleLink ==
    /\ linput = <<>>
    /\ lpc = "idle"
    /\ lresult = [ok |-> FALSE, rest |-> 0]

InitPageOnly ==
    InitPage /\ IdleInline /\ IdleLink /\ IdleNormalize /\ IdleTree
    /\ IdleExt

SpecPage == InitPageOnly /\ [][NextPage]_vars

SpecPageFair == InitPageOnly /\ [][NextPage]_vars /\ WF_vars(NextPage)

(***************************************************************************)
(* Properties of parse_str / page / block_component                        *)
(***************************************************************************)
\* The regions of bs are non-empty, start at 0, end at n and each starts
\* where the one before it ends.
BlocksPartition(bs, n) ==
    IF Len(bs) = 0 THEN n = 0
    ELSE /\ bs[1].start = 0
         /\ bs[Len(bs)].end = n
         /\ \A i \in 1..Len(bs) : bs[i].start < bs[i].end
         /\ \A i \in 1..(Len(bs) - 1) : bs[i].end = bs[i + 1].start

C2_ParseTerminates ==
    /\ [](grammar = "parsers" /\ pc = "many0"
            /\ altIdx > Len(Alternatives(grammar))
          => rest = Len(input))
    /\ [](\A i \in 1..Len(blocks) : blocks[i].start < blocks[i].end)
    /\ <>(pc \in {"ok", "err"})

C2_Witness ==
    /\ pc = "ok"
    /\ grammar = "parsers"
    /\ \E i \in 1..Len(blocks) : blocks[i].kind = "UnrecognizedLine"
    /\ \E i \in 1..Len(blocks) : blocks[i].kind = "EmptyLine"

\* The order of the block alternatives the specification gives.
DocumentedBlockOrder ==
    << "Header", "Paragraph", "List", "Table", "PreformattedText",
       "MathBlock", "Blockquote", "Divider", "TagSequence", "EmptyLine",
       "UnrecognizedLine" >>

\* C3: every block is decided by the first alternative that succeeds in the
\* order Header, Paragraph, List, Table, PreformattedText, MathBlock,
\* Blockquote, Divider, TagSequence, blank line, UnrecognizedLine: the
\* alternatives that failed before it are exactly those before it in that
\* order (List among them for a Table or anything later).
C3_DocumentedOrderTried ==
    grammar = "parsers" =>
        \A i \in 1..Len(blocks) :
            \E k \in 1..Len(DocumentedBlockOrder) :
                /\ DocumentedBlockOrder[k] = blocks[i].kind
                /\ blocks[i].failed = SubSeq(DocumentedBlockOrder, 1, k - 1)

\* C6: parse ends in a ParseError exactly when many0 stopped with input
\* remaining (alternatives that failed on the way are not reported), and the
\* error carries the position of the first unconsumed character.
C6_ErrorIffInputRemains ==
    pc \in {"ok", "err"} =>
        /\ (pc = "err") <=> (rest < Len(input))
        /\ pc = "err" => errPos = rest

C6_Witness ==
    /\ pc = "err"
    /\ Len(blocks) >= 1
    /\ errPos = blocks[Len(blocks)].end
    /\ errPos < Len(input)

(***************************************************************************)
(* inline_component_container / inline_component                           *)
(***************************************************************************)
\* inline_component with text, which matches any character, tried first.
inline_component_text_first ==
    << "Text", "MathInline", "TagSequence", "Link", "DecoratedText",
       "Keyword" >>

\* The alternatives of inline_component's alt, in the order they are written.
inline_component ==
    << "MathInline", "TagSequence", "Link", "DecoratedText", "Keyword",
       "Text" >>

InlineRecognize(kind, s, p) ==
    CASE kind = "MathInline" -> math_inline(s, p)
      [] kind = "TagSequence" -> tag_sequence(s, p)
      [] kind = "Link" -> link(s, p)
      [] kind = "DecoratedText" -> decorated_text(s, p)
      [] kind = "Keyword" -> keyword(s, p)
      [] kind = "Text" -> text(s, p)

\* alt going on from the input the failed alternative stopped at.
alt_next_input_of_error(p, e) == e.rest

\* alt: after the error e of an alternative applied at p, the next
\* alternative is applied to the same input.
alt_next_input(p, e) == p

Fragments ==
    { <<"a">>, <<" ">>, <<NL>>,
      <<"$", "a", "$">>, <<"$", "a">>,
      <<":", "a", ":">>,
      <<"*", "a", "*">>,
      <<"T", "O", "D", "O">>,
      <<"[", "[", "a", "]", "]">>,
      <<"[", "[", "f", "i", "l", "e", ":", "a", "]", "]">>,
      <<"[", "[", "f", "i", "l", "e", ":", "a", "|">> }

RECURSIVE Concat(_)
Concat(ss) == IF Len(ss) = 0 THEN <<>> ELSE ss[1] \o Concat(Tail(ss))

InlineInputs == { Concat(fs) : fs \in SeqsUpTo(Fragments, MaxFragments) }

InitInline ==
    /\ iinput \in InlineInputs
    /\ ipc = "many1"
    /\ ipos = 0
    /\ ialt = 1
    /\ ifailed = <<>>
    /\ ielems = <<>>

\* alt: the alternative fails, the next one is tried.
InlineAlternativeErr ==
    /\ ipc = "many1"
    /\ ialt <= Len(inline_component)
    /\ \E r \in {InlineRecognize(inline_component[ialt], iinput, ipos)} :
          /\ ~r.ok
          /\ ipos' = alt_next_input(ipos, r)
    /\ ialt' = ialt + 1
    /\ ifailed' = Append(ifailed, inline_component[ialt])
    /\ UNCHANGED <<iinput, ipc, ielems>>
    /\ UNCHANGED notInlineVars

\* alt: the alternative succeeds and decides the component; many1 keeps it
\* and goes on with the remaining input, unless nothing was consumed.
InlineAlternativeOk ==
    /\ ipc = "many1"
    /\ ialt <= Len(inline_component)
    /\ \E kind \in {inline_component[ialt]} :
       \E r \in {InlineRecognize(kind, iinput, ipos)} :
          /\ r.ok
          /\ IF r.rest = ipos
             THEN /\ ipc' = "err"
                  /\ UNCHANGED <<ipos, ialt, ifailed, ielems>>
             ELSE /\ ielems' = Append(ielems, LC(kind, ipos, r.rest, ifailed))
                  /\ ipos' = r.rest
                  /\ ialt' = 1
                  /\ ifailed' = <<>>
                  /\ UNCHANGED ipc
    /\ UNCHANGED iinput
    /\ UNCHANGED notInlineVars

\* many1: every alternative failed; an error if no component was parsed,
\* the container of the components so far otherwise.
Many1End ==
    /\ ipc = "many1"
    /\ ialt > Len(inline_component)
    /\ ipc' = IF Len(ielems) = 0 THEN "err" ELSE "ok"
    /\ UNCHANGED <<iinput, ipos, ialt, ifailed, ielems>>
    /\ UNCHANGED notInlineVars

NextInline ==
    \/ InlineAlternativeErr
    \/ InlineAlternativeOk
    \/ Many1End

InitInlineOnly ==
    InitInline /\ IdlePage /\ IdleLink /\ IdleNormalize /\ IdleTree
    /\ IdleExt

SpecInline == InitInlineOnly /\ [][NextInline]_vars

(***************************************************************************)
(* Properties of inline_component_container / inline_component             *)
(***************************************************************************)
\* The order of the inline alternatives the specification gives.
DocumentedInlineOrder ==
    << "MathInline", "TagSequence", "Link", "DecoratedText", "Keyword",
       "Text" >>

\* C4: every inline component is decided by the first alternative that
\* succeeds in the order inline math, tag sequence, link, decorated text,
\* keyword, text: the alternatives before it in that order are the ones that
\* were tried and failed at its position, and (text included) none of them
\* matches there.
C4_InlineOrderFirstMatch ==
    \A i \in 1..Len(ielems) :
        \E k \in 1..Len(DocumentedInlineOrder) :
            /\ DocumentedInlineOrder[k] = ielems[i].kind
            /\ ielems[i].failed = SubSeq(DocumentedInlineOrder, 1, k - 1)
            /\ \A j \in 1..(k - 1) :
                  ~InlineRecognize(DocumentedInlineOrder[j], iinput,
                                   ielems[i].start).ok
            /\ InlineRecognize(DocumentedInlineOrder[k], iinput,
                               ielems[i].start).ok

C4_Witness ==
    /\ ipc = "ok"
    /\ \E i \in 1..Len(ielems) : ielems[i].kind = "Text"
    /\ \E i \in 1..Len(ielems) : ielems[i].kind = "Keyword"

BodyChars == {"a", "/", "|", "]", NL}

SchemeTexts == { SchemeTags[k].text : k \in 1..Len(SchemeTags) } \cup { <<>> }

\* The texts of the scenarios: [[file:a/b|Desc]] and [[///tmp/x]].
ScenarioInputs ==
    { <<"[", "[", "f", "i", "l", "e", ":", "a", "/", "b", "|",
        "D", "e", "s", "c", "]", "]">>,
      <<"[", "[", "/", "/", "/", "t", "m", "p", "/", "x", "]", "]">> }

LinkInputs ==
    { <<"[", "[">> \o k \o b :
        k \in SchemeTexts, b \in SeqsUpTo(BodyChars, MaxBody) }
    \cup { <<"[", "a">> \o k \o <<"a", "]", "]">> : k \in SchemeTexts }
    \cup ScenarioInputs

InitLink ==
    /\ linput \in LinkInputs
    /\ lpc = "call"
    /\ lresult = [ok |-> FALSE, rest |-> 0]

ExternalFileLink ==
    /\ lpc = "call"
    /\ lresult' = external_file_link(linput, 0)
    /\ lpc' = "returned"
    /\ UNCHANGED linput
    /\ UNCHANGED notLinkVars

NextLink == ExternalFileLink

InitLinkOnly ==
    InitLink /\ IdlePage /\ IdleInline /\ IdleNormalize /\ IdleTree
    /\ IdleExt

SpecLink == InitLinkOnly /\ [][NextLink]_vars

(***************************************************************************)
(* Properties of external_file_link                                        *)
(***************************************************************************)
\* The scheme each keyword stands for.
DocumentedSchemes ==
    { [scheme |-> "Local", text |-> <<"l", "o", "c", "a", "l", ":">>],
      [scheme |-> "File", text |-> <<"f", "i", "l", "e", ":">>],
      [scheme |-> "Absolute", text |-> <<"/", "/">>] }

\* The text t stands in s right after position a.
HasAt(s, a, t) == a + Len(t) <= Len(s) /\ SubSeq(s, a + 1, a + Len(t)) = t

\* The n characters of s after position a are a path or a description: at
\* least one character, none a "|" or a line break, and no "]]" begins
\* among them.
IsSegmentText(s, a, n) ==
    /\ n >= 1
    /\ a + n <= Len(s)
    /\ \A i \in (a + 1)..(a + n) :
          /\ s[i] \notin {"|", NL}
          /\ ~(s[i] = "]" /\ i < Len(s) /\ s[i + 1] = "]")

\* s begins with "[[", the keyword of scheme d, a path of n characters, a
\* "|" and a description of m characters unless m = 0, and "]]".
HasLinkShape(s, d, n, m) ==
    /\ HasAt(s, 0, <<"[", "[">> \o d.text)
    /\ IsSegmentText(s, 2 + Len(d.text), n)
    /\ IF m = 0
       THEN HasAt(s, 2 + Len(d.text) + n, <<"]", "]">>)
       ELSE /\ HasAt(s, 2 + Len(d.text) + n, <<"|">>)
            /\ IsSegmentText(s, 3 + Len(d.text) + n, m)
            /\ HasAt(s, 3 + Len(d.text) + n + m, <<"]", "]">>)

\* C7: on "[[" scheme path ("|" description)? "]]" external_file_link
\* consumes the whole link and returns the scheme of the keyword (Local for
\* "local:", File for "file:", Absolute for "//"), the path up to the first
\* "|" or "]]", and the description between "|" and "]]", or none.
C7_ExternalFileLinkFields ==
    lpc = "returned" =>
        \A d \in DocumentedSchemes :
        \A n \in 1..Len(linput) :
        \A m \in 0..Len(linput) :
            HasLinkShape(linput, d, n, m) =>
                /\ lresult.ok
                /\ lresult.rest =
                      2 + Len(d.text) + n + (IF m = 0 THEN 0 ELSE m + 1) + 2
                /\ lresult.region = [start |-> 0, end |-> lresult.rest]
                /\ lresult.link.scheme = d.scheme
                /\ lresult.link.path =
                      SubSeq(linput, 3 + Len(d.text), 2 + Len(d.text) + n)
                /\ lresult.link.description =
                      IF m = 0 THEN None
                      ELSE Some(SubSeq(linput, 4 + Len(d.text) + n,
                                       3 + Len(d.text) + n + m))

\* [[file:a/b|Desc]] has been parsed: File, "a/b", "Desc".
C7_Witness ==
    /\ lpc = "returned"
    /\ lresult.ok
    /\ lresult.rest = Len(linput)
    /\ lresult.link =
          [scheme |-> "File", path |-> <<"a", "/", "b">>,
           description |-> Some(<<"D", "e", "s", "c">>)]

(***************************************************************************)
(* List normalization                                                      *)
(***************************************************************************)
ListItemTypes == {"Hyphen", "Asterisk", "Number"}

ListItemSuffixes == {"None", "Period"}

\* LC<EnhancedListItem>: the fields of ListItem, the attributes and the
\* region; pos and region are those of the i-th item of the source.
EnhancedListItem(t, x, c, i) ==
    [item_type |-> t, suffix |-> x, pos |-> i - 1, contents |-> c,
     attributes |-> "todo_none", region |-> <<i, i>>]

\* Nested lists (ListItemContent::List), their items holding inline content.
SubLists ==
    { << EnhancedListItem("Number", "Period", <<"inline">>, 1) >>,
      << EnhancedListItem("Number", "Period", <<"inline">>, 1),
         EnhancedListItem("Hyphen", "None", <<"inline">>, 2) >> }

\* ListItemContents: inline content, optionally followed by a nested List.
ListItemContentsSamples ==
    { <<"inline">> } \cup { <<"inline", l>> : l \in SubLists }

ItemSamples ==
    [item_type : ListItemTypes, suffix : ListItemSuffixes,
     contents : ListItemContentsSamples]

Lists ==
    { [i \in 1..Len(its) |->
          EnhancedListItem(its[i].item_type, its[i].suffix,
                           its[i].contents, i)] :
        its \in SeqsUpTo(ItemSamples, MaxItems) }

\* normalize with the tail taken one item too late: [_, _, tail @ ..].
normalize_skips_second(its) ==
    [i \in 1..Len(its) |->
        IF i <= 2 THEN its[i]
        ELSE [its[i] EXCEPT !.item_type = its[1].item_type]]

\* normalize giving each item the type of the item before it.
normalize_from_previous(its) ==
    [i \in 1..Len(its) |->
        IF i = 1 THEN its[i]
        ELSE [its[i] EXCEPT !.item_type = its[i - 1].item_type]]

\* normalize that gives the head's type to the items of nested lists too.
normalize_with_sublists(its) ==
    [i \in 1..Len(its) |->
        IF i = 1 THEN its[i]
        ELSE [its[i] EXCEPT
                !.item_type = its[1].item_type,
                !.contents =
                    [c \in 1..Len(@) |->
                        IF c = 1 THEN @[c]
                        ELSE [j \in 1..Len(@[c]) |->
                                [@[c][j] EXCEPT
                                    !.item_type = its[1].item_type]]]]]

\* List::normalize: if let [head, tail @ ..] = items { for item in tail
\* { item.item_type = head.item_type } }
normalize(its) ==
    IF Len(its) = 0 THEN its
    ELSE [i \in 1..Len(its) |->
            IF i = 1 THEN its[i]
            ELSE [its[i] EXCEPT !.item_type = its[1].item_type]]

InitNormalize ==
    /\ items \in Lists
    /\ items0 = items
    /\ ncalls = 0

Normalize ==
    /\ ncalls < MaxCalls
    /\ items' = normalize(items)
    /\ ncalls' = ncalls + 1
    /\ UNCHANGED items0
    /\ UNCHANGED notNormVars

NextNormalize == Normalize

InitNormalizeOnly ==
    InitNormalize /\ IdlePage /\ IdleInline /\ IdleLink /\ IdleTree
    /\ IdleExt

SpecNormalize == InitNormalizeOnly /\ [][NextNormalize]_vars

(***************************************************************************)
(* Properties of List::normalize                                           *)
(***************************************************************************)
\* C8: after normalize every item has the type the first item had before
\* the call; an empty list is left as it is.
C8_AllItemsTakeFirstType ==
    ncalls >= 1 =>
        /\ Len(items0) = 0 => items = items0
        /\ \A i \in 1..Len(items) : items[i].item_type = items0[1].item_type

C8_Witness ==
    /\ ncalls = 1
    /\ Len(items0) >= 3
    /\ items0[2].item_type # items0[1].item_type
    /\ items0[3].item_type # items0[1].item_type
    /\ items0[3].item_type # items0[2].item_type

IsNormalized(its) ==
    \A i \in 1..Len(its) : its[i].item_type = its[1].item_type

\* C9: normalize is idempotent: a call after the first changes nothing, and
\* a call on a list that is already normalized changes nothing.
C9_NormalizeIdempotent ==
    /\ [][ncalls >= 1 => items' = items]_vars
    /\ [][IsNormalized(items) => items' = items]_vars

C9_Witness ==
    /\ ncalls = 2
    /\ items # items0
    /\ Len(items) >= 3

\* C10: normalize changes nothing but the item types of the items after the
\* first: the number of items, the first item and every other field of
\* every item (suffix, pos, attributes, region, contents with the item
\* types of nested lists) stay as they were.
C10_NormalizeFrame ==
    /\ Len(items) = Len(items0)
    /\ Len(items0) >= 1 => items[1] = items0[1]
    /\ \A i \in 1..Len(items) :
          [items[i] EXCEPT !.item_type = items0[i].item_type] = items0[i]

\* A list was changed, and an item after the first still holds a nested
\* list whose items are not of the type of the list's first item.
C10_Witness ==
    /\ ncalls >= 1
    /\ items # items0
    /\ \E i \in 2..Len(items) :
          /\ Len(items[i].contents) = 2
          /\ \E j \in 1..Len(items[i].contents[2]) :
                items[i].contents[2][j].item_type # items[1].item_type

(***************************************************************************)
(* Positions, regions and located elements                                 *)
(***************************************************************************)
\* Position: (line, column), ordered by line first and column second.
PosLe(a, b) == a[1] < b[1] \/ (a[1] = b[1] /\ a[2] <= b[2])

\* Region::from((start_line, start_column, end_line, end_column)).
Region(l1, c1, l2, c2) == [start |-> <<l1, c1>>, end |-> <<l2, c2>>]

\* Region::contains: both ends included.
contains(r, p) == PosLe(r.start, p) /\ PosLe(p, r.end)

\* LE::new(element, region).
LE(x, r) == [element |-> x, region |-> r]

(***************************************************************************)
(* Elements of a page                                                      *)
(***************************************************************************)
InlineElementContainer(es) == [elements |-> es]

Text(t) == [type |-> "Text", text |-> t]

Keyword(k) == [type |-> "Keyword", keyword |-> k]

DecoratedText(kind, cs) ==
    [type |-> "DecoratedText", kind |-> kind, contents |-> cs]

Divider == [type |-> "Divider"]

Blockquote == [type |-> "Blockquote"]

Paragraph(es) == [type |-> "Paragraph", content |-> InlineElementContainer(es)]

Header(es) == [type |-> "Header", content |-> InlineElementContainer(es)]

\* ListItemContent::InlineContent and ListItemContent::List.
InlineContent(es) ==
    [type |-> "InlineContent", container |-> InlineElementContainer(es)]

SubList(l) == [type |-> "List", list |-> l]

ListBlock(its) == [type |-> "List", items |-> its]

\* Row::Content, Row::Divider, Cell::Content, Cell::Span, Cell::Empty.
ContentRow(cells) == [type |-> "Content", cells |-> cells]

DividerRow == [type |-> "Divider"]

ContentCell(es) ==
    [type |-> "Content", container |-> InlineElementContainer(es)]

SpanCell == [type |-> "Span"]

EmptyCell == [type |-> "Empty"]

Table(rows) == [type |-> "Table", rows |-> rows]

TermAndDefinitions(term, defs) ==
    [term |-> InlineElementContainer(term),
     definitions |-> [i \in 1..Len(defs) |-> InlineElementContainer(defs[i])]]

DefinitionList(tds) == [type |-> "DefinitionList", tds |-> tds]

(***************************************************************************)
(* The elements a node's children are made from (add_block_element and     *)
(* add_inline_element, the match on the element)                           *)
(***************************************************************************)
\* ElementRef::Inline(e.as_inner()) with e.region.
InlineRef(e) == [kind |-> "Inline", element |-> e.element, region |-> e.region]

\* ElementRef::Block(x) with the region handed to add_block_element.
BlockRef(x, r) == [kind |-> "Block", element |-> x, region |-> r]

\* flat_map(..).collect(): the sequences one after the other.
RECURSIVE Flatten(_)
Flatten(ss) == IF Len(ss) = 0 THEN <<>> ELSE ss[1] \o Flatten(Tail(ss))

\* add_inline_elements_from_container: one inline element per element of
\* the container, in order.
container_elements(c) ==
    [i \in 1..Len(c.elements) |-> InlineRef(c.elements[i])]

\* A definition list that gives the terms only.
definition_list_terms_only(x) ==
    Flatten([i \in 1..Len(x.tds) |-> container_elements(x.tds[i].term)])

\* BlockElement::DefinitionList: per term, the term and then each definition.
definition_list_elements(x) ==
    Flatten([i \in 1..Len(x.tds) |->
        container_elements(x.tds[i].term)
        \o Flatten([j \in 1..Len(x.tds[i].definitions) |->
                container_elements(x.tds[i].definitions[j])])])

\* One ListItemContent: its inline elements, or the nested list as a block.
list_item_content_elements(c) ==
    IF c.element.type = "InlineContent"
    THEN container_elements(c.element.container)
    ELSE << BlockRef(c.element.list, c.region) >>

\* BlockElement::List: per item, per content.
list_elements(x) ==
    Flatten([i \in 1..Len(x.items) |->
        Flatten([j \in 1..Len(x.items[i].contents) |->
            list_item_content_elements(x.items[i].contents[j])])])

\* One cell: Cell::Content gives its inline elements, the others nothing.
cell_elements(c) ==
    IF c.element.type = "Content"
    THEN container_elements(c.element.container)
    ELSE <<>>

\* One row: Row::Content gives its cells' elements, the others nothing.
row_elements(r) ==
    IF r.element.type = "Content"
    THEN Flatten([j \in 1..Len(r.element.cells) |->
            cell_elements(r.element.cells[j])])
    ELSE <<>>

\* BlockElement::Table: per row.
table_elements(x) ==
    Flatten([i \in 1..Len(x.rows) |-> row_elements(x.rows[i])])

\* add_block_element, children_ids: match element { .. }.
block_children(element) ==
    CASE element.type = "DefinitionList" -> definition_list_elements(element)
      [] element.type = "Header" -> container_elements(element.content)
      [] element.type = "List" -> list_elements(element)
      [] element.type = "Paragraph" -> container_elements(element.content)
      [] element.type = "Table" -> table_elements(element)
      [] OTHER -> <<>>

\* Every inline element a leaf: the contents of decorated text get no
\* nodes.
inline_leaf(element) == <<>>

\* add_inline_element, children_ids: match element { .. }.
inline_children(element) ==
    IF element.type = "DecoratedText"
    THEN [i \in 1..Len(element.contents) |-> InlineRef(element.contents[i])]
    ELSE <<>>

children_of(ref) ==
    IF ref.kind = "Block" THEN block_children(ref.element)
    ELSE inline_children(ref.element)

(***************************************************************************)
(* Pages the tree is built from: hand-built like tests::test_page, the     *)
(* i-th element of a page on line i                                        *)
(***************************************************************************)
\* tests::test_page, first element.
DividerAt(l) == LE(Divider, Region(l, 1, l, 3))

\* tests::test_page, second element: "abc" and a bold "bold".
ParagraphAt(l) ==
    LE(Paragraph(<<
           LE(Text("abc"), Region(l, 1, l, 3)),
           LE(DecoratedText("Bold", << LE(Text("bold"), Region(l, 4, l, 7)) >>),
              Region(l, 4, l, 7)) >>),
       Region(l, 1, l, 7))

HeaderAt(l) ==
    LE(Header(<< LE(Text("head"), Region(l, 1, l, 3)),
                 LE(Keyword("TODO"), Region(l, 4, l, 7)) >>),
       Region(l, 1, l, 7))

\* - a          (two items; the first holds a list that holds a list)
\*     1. b
\*         1. c
\* - DONE
InnermostList(l) ==
    ListBlock(<<
        EnhancedListItem("Number", "Period",
            << LE(InlineContent(<< LE(Text("c"), Region(l, 5, l, 6)) >>),
                  Region(l, 5, l, 6)) >>, 1) >>)

InnerList(l) ==
    ListBlock(<<
        EnhancedListItem("Number", "Period",
            << LE(InlineContent(<< LE(Text("b"), Region(l, 3, l, 4)) >>),
                  Region(l, 3, l, 4)),
               LE(SubList(InnermostList(l)), Region(l, 5, l, 6)) >>, 1) >>)

ListAt(l) ==
    LE(ListBlock(<<
           EnhancedListItem("Hyphen", "None",
               << LE(InlineContent(<< LE(Text("a"), Region(l, 1, l, 2)) >>),
                     Region(l, 1, l, 2)),
                  LE(SubList(InnerList(l)), Region(l, 3, l, 6)) >>, 1),
           EnhancedListItem("Hyphen", "None",
               << LE(InlineContent(<< LE(Keyword("DONE"),
                                         Region(l, 7, l, 7)) >>),
                     Region(l, 7, l, 7)) >>, 2) >>),
       Region(l, 1, l, 7))

\* A divider row and a row of a content cell, a span, an empty cell and a
\* content cell.
TableAt(l) ==
    LE(Table(<<
           LE(DividerRow, Region(l, 1, l, 1)),
           LE(ContentRow(<<
                  LE(ContentCell(<< LE(Text("x"), Region(l, 2, l, 3)) >>),
                     Region(l, 2, l, 3)),
                  LE(SpanCell, Region(l, 4, l, 4)),
                  LE(EmptyCell, Region(l, 5, l, 5)),
                  LE(ContentCell(<< LE(Keyword("TODO"),
                                       Region(l, 6, l, 7)) >>),
                     Region(l, 6, l, 7)) >>),
              Region(l, 2, l, 7)) >>),
       Region(l, 1, l, 7))

\* Two terms, the first with one definition, the second with two.
DefinitionListAt(l) ==
    LE(DefinitionList(<<
           TermAndDefinitions(
               << LE(Text("t1"), Region(l, 1, l, 1)) >>,
               << << LE(Text("d1"), Region(l, 2, l, 3)) >> >>),
           TermAndDefinitions(
               << LE(Text("t2"), Region(l, 4, l, 5)) >>,
               << << LE(Text("d2"), Region(l, 6, l, 6)) >>,
                  << LE(Keyword("TODO"), Region(l, 7, l, 7)) >> >>) >>),
       Region(l, 1, l, 7))

\* A blockquote whose region runs into the next line.
WideBlockquoteAt(l) == LE(Blockquote, Region(l, 1, l + 1, 3))

\* A paragraph whose two inline elements have regions that overlap.
OverlappingParagraphAt(l) ==
    LE(Paragraph(<<
           LE(Text("abcd"), Region(l, 1, l, 4)),
           LE(DecoratedText("Italic", <<
                  LE(DecoratedText("Bold", <<
                         LE(Text("bold"), Region(l, 3, l, 7)) >>),
                     Region(l, 3, l, 7)) >>),
              Region(l, 3, l, 7)) >>),
       Region(l, 1, l, 7))

BlockSampleNames ==
    { "Divider", "Paragraph", "Header", "List", "Table", "DefinitionList",
      "WideBlockquote", "OverlappingParagraph" }

BlockSampleAt(name, l) ==
    CASE name = "Divider" -> DividerAt(l)
      [] name = "Paragraph" -> ParagraphAt(l)
      [] name = "Header" -> HeaderAt(l)
      [] name = "List" -> ListAt(l)
      [] name = "Table" -> TableAt(l)
      [] name = "DefinitionList" -> DefinitionListAt(l)
      [] name = "WideBlockquote" -> WideBlockquoteAt(l)
      [] name = "OverlappingParagraph" -> OverlappingParagraphAt(l)

\* page.elements of the pages.
Pages ==
    { [i \in 1..Len(ns) |-> BlockSampleAt(ns[i], i)] :
        ns \in SeqsUpTo(BlockSampleNames, MaxBlocks) }

\* The columns positions are asked at.
QueryColumns == {1, 3, 4, 7, 8}

Positions == (1..(MaxBlocks + 1)) \X QueryColumns

(***************************************************************************)
(* ElementTree::from_page                                                  *)
(***************************************************************************)
\* ElementTree::EMPTY_NODE.
EMPTY_NODE == 0

\* A counter that hands out the value after the increment.
add_fetch(c) == [id |-> c + 1, counter |-> c + 1]

\* counter.fetch_add(1, Ordering::Relaxed): the value before the increment.
fetch_add(c) == [id |-> c, counter |-> c + 1]

\* Vec::insert(0, id).
push_front(ids, id) == <<id>> \o ids

\* Vec::push(id).
push(ids, id) == Append(ids, id)

\* The root of the caller handed down as the parent.
child_parent_id_root(call) == Some(call.root_id)

\* The parent_id a call hands to the calls that add its children:
\* Some(element_id).
child_parent_id(call) == Some(call.element_id)

\* Every block element its own root, whatever root id it was handed.
block_root_id_own(root_id, element_id) == element_id

\* add_block_element: a root id that is nothing means the element is a root.
block_root_id(root_id, element_id) ==
    IF root_id # EMPTY_NODE THEN root_id ELSE element_id

\* The root id a new element gets from the call that adds it.
element_root_id(ref, root_id, element_id) ==
    IF ref.kind = "Block" THEN block_root_id(root_id, element_id)
    ELSE root_id

\* A call of add_block_element / add_inline_element that has taken its id
\* and has the elements in `pending` still to add as children.
Call(element_id, root_id, parent_id, ref) ==
    [element_id |-> element_id, root_id |-> root_id, parent_id |-> parent_id,
     ref |-> ref, pending |-> children_of(ref), children_ids |-> <<>>]

\* The ElementNode a finished call inserts.
ElementNode(call) ==
    [root_id |-> call.root_id, parent_id |-> call.parent_id,
     element_id |-> call.element_id, element |-> call.ref.element,
     kind |-> call.ref.kind, region |-> call.ref.region,
     children_ids |-> call.children_ids]

\* HashMap::insert.
insert(map, k, v) ==
    [i \in (DOMAIN map) \cup {k} |-> IF i = k THEN v ELSE map[i]]

\* from_page up to its loop: no nodes, the counter at EMPTY_NODE + 1.
InitTree ==
    /\ tpage \in Pages
    /\ nodes = <<>>
    /\ root_nodes = <<>>
    /\ counter = EMPTY_NODE + 1
    /\ stack = <<>>
    /\ tnext = 1
    /\ tpc = "building"
    /\ qop = "none"
    /\ qpc = "none"
    /\ qpos = <<0, 0>>
    /\ qnode = 0
    /\ qresult = <<>>

\* from_page's loop calls add_block_element(counter, EMPTY_NODE, None, ..)
\* for the next element of the page; the call takes its id.
AddRootElement ==
    /\ tpc = "building"
    /\ stack = <<>>
    /\ tnext <= Len(tpage)
    /\ \E f \in {fetch_add(counter)} :
          /\ counter' = f.counter
          /\ stack' =
                << Call(f.id, block_root_id(EMPTY_NODE, f.id), None,
                        BlockRef(tpage[tnext].element,
                                 tpage[tnext].region)) >>
    /\ UNCHANGED <<tpage, nodes, root_nodes, tnext, tpc>>
    /\ UNCHANGED queryVars
    /\ UNCHANGED notTreeVars

\* The innermost call adds its next child: add_inline_element or
\* add_block_element with Some(element_id) as parent; the new call takes
\* its id.
AddChildElement ==
    /\ tpc = "building"
    /\ Len(stack) >= 1
    /\ Len(stack[Len(stack)].pending) >= 1
    /\ \E top \in {stack[Len(stack)]} :
       \E f \in {fetch_add(counter)} :
          /\ counter' = f.counter
          /\ stack' =
                Append([stack EXCEPT
                           ![Len(stack)].pending = Tail(top.pending)],
                       Call(f.id,
                            element_root_id(Head(top.pending), top.root_id,
                                            f.id),
                            child_parent_id(top), Head(top.pending)))
    /\ UNCHANGED <<tpage, nodes, root_nodes, tnext, tpc>>
    /\ UNCHANGED queryVars
    /\ UNCHANGED notTreeVars

\* The innermost call has added all its children: it inserts its node and
\* returns its id, to the children_ids of its caller or to from_page, which
\* pushes it onto root_nodes.
InsertNode ==
    /\ tpc = "building"
    /\ Len(stack) >= 1
    /\ Len(stack[Len(stack)].pending) = 0
    /\ \E top \in {stack[Len(stack)]} :
          /\ nodes' = insert(nodes, top.element_id, ElementNode(top))
          /\ IF Len(stack) = 1
             THEN /\ stack' = <<>>
                  /\ root_nodes' = push(root_nodes, top.element_id)
                  /\ tnext' = tnext + 1
             ELSE /\ stack' =
                        [SubSeq(stack, 1, Len(stack) - 1) EXCEPT
                            ![Len(stack) - 1].children_ids =
                                push(@, top.element_id)]
                  /\ UNCHANGED <<root_nodes, tnext>>
    /\ UNCHANGED <<tpage, counter, tpc>>
    /\ UNCHANGED queryVars
    /\ UNCHANGED notTreeVars

\* from_page returns the instance.
FromPageReturn ==
    /\ tpc = "building"
    /\ stack = <<>>
    /\ tnext > Len(tpage)
    /\ tpc' = "built"
    /\ UNCHANGED <<tpage, nodes, root_nodes, counter, stack, tnext>>
    /\ UNCHANGED queryVars
    /\ UNCHANGED notTreeVars

(***************************************************************************)
(* The queries of ElementTree; a node is handed around as its id           *)
(***************************************************************************)
\* ids.iter().flat_map(|id| self.nodes.get(id)).collect()
get_all(ids) == SelectSeq(ids, LAMBDA id : id \in DOMAIN nodes)

\* The ids of S from the greatest down.
RECURSIVE Descending(_)
Descending(S) ==
    IF S = {} THEN <<>>
    ELSE <<CHOOSE x \in S : \A y \in S : y <= x>>
         \o Descending(S \ {CHOOSE x \in S : \A y \in S : y <= x})

\* The roots gathered from the node map (is_root), in an order of the map
\* that is not the order of the page.
RootNodesFromMap ==
    Descending({n \in DOMAIN nodes : nodes[n].root_id = n})

\* root_nodes()
RootNodes == get_all(root_nodes)

\* children_for(node)
children_for(n) == get_all(nodes[n].children_ids)

\* parent_for(node): node.parent_id.and_then(|id| self.nodes.get(&id))
parent_for(n) ==
    IF nodes[n].parent_id = None THEN None
    ELSE IF nodes[n].parent_id[1] \in DOMAIN nodes THEN nodes[n].parent_id
    ELSE None

\* The nodes siblings_for filters: the parent's children or the roots.
siblings_source(parent) ==
    IF parent # None THEN children_for(parent[1]) ELSE RootNodes

\* siblings_for without its filter: the node among its own siblings.
siblings_with_self(n) == siblings_source(parent_for(n))

\* siblings_for(node)
siblings_for(n) ==
    SelectSeq(siblings_source(parent_for(n)), LAMBDA id : id # n)

\* Every index of ids, whether or not the node's region contains pos.
AnyAt(ids, pos) == 1..Len(ids)

\* root_for(node): self.nodes.get(&node.root_id), None standing for the
\* missing node that .expect("Tree mutated after construction") panics on.
root_for(n) ==
    IF nodes[n].root_id \in DOMAIN nodes THEN Some(nodes[n].root_id)
    ELSE None

\* ElementNode::is_root
is_root(n) == nodes[n].root_id = nodes[n].element_id

\* The indices of the nodes of ids whose region has pos strictly between
\* its end points.
StrictlyInsideAt(ids, pos) ==
    {i \in 1..Len(ids) :
        /\ contains(nodes[ids[i]].region, pos)
        /\ pos # nodes[ids[i]].region.start
        /\ pos # nodes[ids[i]].region.end}

\* The indices of the nodes of ids whose region contains pos.
ContainingAt(ids, pos) ==
    {i \in 1..Len(ids) : contains(nodes[ids[i]].region, pos)}

\* The element of ids[i] for the greatest i of a non-empty S: the last
\* match instead of the first.
AtGreatest(ids, S) ==
    IF S = {} THEN None
    ELSE Some(ids[CHOOSE i \in S : \A j \in S : j <= i])

\* The element of ids[i] for the least i of a non-empty S.
AtLeast(ids, S) ==
    IF S = {} THEN None
    ELSE Some(ids[CHOOSE i \in S : \A j \in S : i <= j])

\* .iter().rev().find(..): the last node of ids containing pos.
rfind_containing(ids, pos) == AtGreatest(ids, ContainingAt(ids, pos))

\* .iter().find(|n| n.region().contains(position))
find_containing(ids, pos) == AtLeast(ids, ContainingAt(ids, pos))

\* find_root_at(position)
find_root_at(pos) == find_containing(RootNodes, pos)

\* root_nodes() taking the root list out of the tree (mem::take) instead of
\* reading it.
RootNodesTake ==
    /\ tpc = "built"
    /\ qpc = "none"
    /\ qop' = "root_nodes"
    /\ qpc' = "returned"
    /\ qpos' = <<0, 0>>
    /\ qnode' = 0
    /\ qresult' = RootNodes
    /\ root_nodes' = <<>>
    /\ UNCHANGED <<tpage, nodes, counter, stack, tnext, tpc>>
    /\ UNCHANGED notTreeVars

\* root_nodes() on the finished tree.
RootNodesCall ==
    /\ tpc = "built"
    /\ qpc = "none"
    /\ qop' = "root_nodes"
    /\ qpc' = "returned"
    /\ qpos' = <<0, 0>>
    /\ qnode' = 0
    /\ qresult' = RootNodes
    /\ UNCHANGED buildVars
    /\ UNCHANGED notTreeVars

\* find_root_at(position) on the finished tree.
FindRootAt ==
    /\ tpc = "built"
    /\ qpc = "none"
    /\ \E pos \in Positions :
          /\ qpos' = pos
          /\ qresult' = find_root_at(pos)
    /\ qop' = "find_root_at"
    /\ qpc' = "returned"
    /\ qnode' = 0
    /\ UNCHANGED buildVars
    /\ UNCHANGED notTreeVars

\* find_deepest_at(position): match self.find_root_at(position); with a
\* root the loop starts at it, without one the result is None.
FindDeepestAt ==
    /\ tpc = "built"
    /\ qpc = "none"
    /\ \E pos \in Positions :
       \E root \in {find_root_at(pos)} :
          /\ qpos' = pos
          /\ IF root # None
             THEN qpc' = "descending" /\ qnode' = root[1]
             ELSE qpc' = "returned" /\ qnode' = 0
    /\ qop' = "find_deepest_at"
    /\ qresult' = None
    /\ UNCHANGED buildVars
    /\ UNCHANGED notTreeVars

\* One turn of find_deepest_at's loop that finds a child: curr = next.
DescendNext ==
    /\ qpc = "descending"
    /\ \E next \in {find_containing(children_for(qnode), qpos)} :
          /\ next # None
          /\ qnode' = next[1]
    /\ UNCHANGED <<qop, qpc, qpos, qresult>>
    /\ UNCHANGED buildVars
    /\ UNCHANGED notTreeVars

\* The turn of the loop that finds no child: break Some(curr).
DescendBreak ==
    /\ qpc = "descending"
    /\ find_containing(children_for(qnode), qpos) = None
    /\ qresult' = Some(qnode)
    /\ qpc' = "returned"
    /\ UNCHANGED <<qop, qpos, qnode>>
    /\ UNCHANGED buildVars
    /\ UNCHANGED notTreeVars

\* parent_for(node) for a node of the finished tree.
ParentFor ==
    /\ tpc = "built"
    /\ qpc = "none"
    /\ \E n \in DOMAIN nodes :
          /\ qnode' = n
          /\ qresult' = parent_for(n)
    /\ qop' = "parent_for"
    /\ qpc' = "returned"
    /\ qpos' = <<0, 0>>
    /\ UNCHANGED buildVars
    /\ UNCHANGED notTreeVars

\* children_for(node) for a node of the finished tree.
ChildrenFor ==
    /\ tpc = "built"
    /\ qpc = "none"
    /\ \E n \in DOMAIN nodes :
          /\ qnode' = n
          /\ qresult' = children_for(n)
    /\ qop' = "children_for"
    /\ qpc' = "returned"
    /\ qpos' = <<0, 0>>
    /\ UNCHANGED buildVars
    /\ UNCHANGED notTreeVars

\* siblings_for(node) for a node of the finished tree.
SiblingsFor ==
    /\ tpc = "built"
    /\ qpc = "none"
    /\ \E n \in DOMAIN nodes :
          /\ qnode' = n
          /\ qresult' = siblings_for(n)
    /\ qop' = "siblings_for"
    /\ qpc' = "returned"
    /\ qpos' = <<0, 0>>
    /\ UNCHANGED buildVars
    /\ UNCHANGED notTreeVars

\* root_for(node) for a node of the finished tree: it returns the root's
\* node, or panics where the node map has no node of that id.
RootFor ==
    /\ tpc = "built"
    /\ qpc = "none"
    /\ \E n \in DOMAIN nodes :
       \E root \in {root_for(n)} :
          /\ qnode' = n
          /\ qresult' = root
          /\ qpc' = IF root # None THEN "returned" ELSE "panicked"
    /\ qop' = "root_for"
    /\ qpos' = <<0, 0>>
    /\ UNCHANGED buildVars
    /\ UNCHANGED notTreeVars

\* The query returns to its caller, which takes the result; the tree is
\* borrowed (&self) and stays as it is for the next query.
QueryReturn ==
    /\ qpc = "returned"
    /\ qop' = "none"
    /\ qpc' = "none"
    /\ qpos' = <<0, 0>>
    /\ qnode' = 0
    /\ qresult' = <<>>
    /\ UNCHANGED buildVars
    /\ UNCHANGED notTreeVars

NextTree ==
    \/ AddRootElement
    \/ AddChildElement
    \/ InsertNode
    \/ FromPageReturn
    \/ RootNodesCall
    \/ FindRootAt
    \/ FindDeepestAt
    \/ DescendNext
    \/ DescendBreak
    \/ ParentFor
    \/ ChildrenFor
    \/ SiblingsFor
    \/ RootFor
    \/ QueryReturn

InitTreeOnly ==
    InitTree /\ IdlePage /\ IdleInline /\ IdleLink /\ IdleNormalize
    /\ IdleExt

SpecTree == InitTreeOnly /\ [][NextTree]_vars

\* Every call of from_page and every query runs on to its return.
SpecTreeFair ==
    /\ InitTreeOnly
    /\ [][NextTree]_vars
    /\ WF_vars(AddRootElement \/ AddChildElement \/ InsertNode
               \/ FromPageReturn)
    /\ WF_vars(DescendNext \/ DescendBreak)

(***************************************************************************)
(* Properties of the element tree                                          *)
(***************************************************************************)
\* The elements of a sequence.
Range(f) == {f[i] : i \in DOMAIN f}

\* The inline elements a container contributes.
Inlines(c) ==
    [i \in 1..Len(c.elements) |->
        [kind |-> "Inline", element |-> c.elements[i].element,
         region |-> c.elements[i].region]]

\* The recursion rules for children, as the specification gives them.
RuleChildren(ref) ==
    LET e == ref.element IN
    IF ref.kind = "Inline"
    THEN IF e.type = "DecoratedText"
         THEN [i \in 1..Len(e.contents) |->
                 [kind |-> "Inline", element |-> e.contents[i].element,
                  region |-> e.contents[i].region]]
         ELSE <<>>
    ELSE CASE e.type \in {"Header", "Paragraph"} -> Inlines(e.content)
           [] e.type = "List" ->
                Flatten([i \in 1..Len(e.items) |->
                    Flatten([j \in 1..Len(e.items[i].contents) |->
                        LET c == e.items[i].contents[j] IN
                        IF c.element.type = "List"
                        THEN << [kind |-> "Block", element |-> c.element.list,
                                 region |-> c.region] >>
                        ELSE Inlines(c.element.container)])])
           [] e.type = "Table" ->
                Flatten([i \in 1..Len(e.rows) |->
                    IF e.rows[i].element.type # "Content" THEN <<>>
                    ELSE Flatten([j \in 1..Len(e.rows[i].element.cells) |->
                            LET c == e.rows[i].element.cells[j].element IN
                            IF c.type = "Content" THEN Inlines(c.container)
                            ELSE <<>>])])
           [] e.type = "DefinitionList" ->
                Flatten([i \in 1..Len(e.tds) |->
                    Inlines(e.tds[i].term)
                    \o Flatten([j \in 1..Len(e.tds[i].definitions) |->
                            Inlines(e.tds[i].definitions[j])])])
           [] OTHER -> <<>>

\* An element and the elements below it, depth first, parents first.
RECURSIVE PreOrder(_)
PreOrder(ref) ==
    LET cs == RuleChildren(ref)
    IN  <<ref>> \o Flatten([i \in 1..Len(cs) |-> PreOrder(cs[i])])

\* The elements of a page that the recursion rules reach, in that order.
ReachableElements(page) ==
    Flatten([i \in 1..Len(page) |->
        PreOrder([kind |-> "Block", element |-> page[i].element,
                  region |-> page[i].region])])

\* The ids of the calls in progress.
StackIds == {stack[i].element_id : i \in 1..Len(stack)}

\* C11: ids are handed out by one counter that starts at 1 and goes up by
\* one per node: at any time the ids taken are 1..counter-1, each by one
\* node or one call in progress, never 0; a node's id is smaller than the
\* ids of its children; and after the build the node with id i is the i-th
\* element of the page in depth-first pre-order, so that every reachable
\* element has exactly one node.
C11_IdsInPreOrder ==
    /\ tpc # "idle" =>
          /\ counter >= 1
          /\ (DOMAIN nodes) \cup StackIds = 1..(counter - 1)
          /\ (DOMAIN nodes) \cap StackIds = {}
          /\ \A i, j \in 1..Len(stack) :
                i < j => stack[i].element_id < stack[j].element_id
          /\ \A n \in DOMAIN nodes :
                /\ nodes[n].element_id = n
                /\ n # 0
                /\ \A c \in Range(nodes[n].children_ids) : n < c
    /\ tpc = "built" =>
          LET reached == ReachableElements(tpage)
          IN  /\ DOMAIN nodes = 1..Len(reached)
              /\ \A n \in DOMAIN nodes :
                    [kind |-> nodes[n].kind, element |-> nodes[n].element,
                     region |-> nodes[n].region] = reached[n]

\* A tree of two roots has been built, the second a list that holds a list
\* that holds a list.
C11_Witness ==
    /\ tpc = "built"
    /\ Len(root_nodes) = 2
    /\ \E n \in DOMAIN nodes :
          /\ nodes[n].kind = "Block"
          /\ nodes[n].parent_id # None
          /\ nodes[nodes[n].parent_id[1]].parent_id # None

\* The node k parent links above n, or EMPTY_NODE when the links end
\* before that.
RECURSIVE Up(_, _)
Up(n, k) ==
    IF k = 0 THEN n
    ELSE IF n \notin DOMAIN nodes THEN EMPTY_NODE
    ELSE IF nodes[n].parent_id = None THEN EMPTY_NODE
    ELSE Up(nodes[n].parent_id[1], k - 1)

\* n and the nodes reached from it by parent links.
AncestorsOrSelf(n) ==
    {Up(n, k) : k \in 0..Cardinality(DOMAIN nodes)} \ {EMPTY_NODE}

\* The places of n in the child lists.
PlacesAsChild(n) ==
    {pl \in UNION {{p} \X (1..Len(nodes[p].children_ids)) :
                      p \in DOMAIN nodes} :
        nodes[pl[1]].children_ids[pl[2]] = n}

\* C12: the finished tree is a forest: the parent links from any node end
\* after at most as many steps as there are nodes (no cycle) and pass
\* exactly one root; a node is in at most one place of all the child lists;
\* the root list holds no node twice; and a child list is in source order:
\* by the order the ids were given, and by where the children's regions
\* start.
C12_Forest ==
    tpc = "built" =>
        /\ \A n \in DOMAIN nodes :
              /\ Up(n, Cardinality(DOMAIN nodes)) = EMPTY_NODE
              /\ Cardinality(AncestorsOrSelf(n) \cap Range(root_nodes)) = 1
              /\ Cardinality(PlacesAsChild(n)) <= 1
              /\ \A i, j \in 1..Len(nodes[n].children_ids) :
                    i < j =>
                        /\ nodes[n].children_ids[i] < nodes[n].children_ids[j]
                        /\ PosLe(nodes[nodes[n].children_ids[i]].region.start,
                                 nodes[nodes[n].children_ids[j]].region.start)
        /\ \A i, j \in 1..Len(root_nodes) :
              i < j => root_nodes[i] < root_nodes[j]

\* A finished tree of two roots with a node three parent links below its
\* root and a node with three children.
C12_Witness ==
    /\ tpc = "built"
    /\ Len(root_nodes) = 2
    /\ \E n \in DOMAIN nodes : Up(n, 3) \in Range(root_nodes)
    /\ \E n \in DOMAIN nodes : Len(nodes[n].children_ids) >= 3

\* What a node refers to: the element, whether block or inline, its region.
NodeRef(n) ==
    [kind |-> nodes[n].kind, element |-> nodes[n].element,
     region |-> nodes[n].region]

\* What the nodes of a list of ids refer to.
NodeRefs(ids) == [i \in 1..Len(ids) |-> NodeRef(ids[i])]

\* C13: the children of a node are exactly the elements the recursion
\* rules give for its element, in that order, both in children_ids and in
\* what children_for returns; the variants without a rule (here Divider,
\* Blockquote, Text, Keyword) have none, and the table of a divider row and
\* a row of a content cell, a span, an empty cell and a content cell has
\* the inline elements of the two content cells.
C13_ChildrenByRule ==
    /\ tpc = "built" =>
          \A n \in DOMAIN nodes :
              /\ NodeRefs(nodes[n].children_ids) = RuleChildren(NodeRef(n))
              /\ nodes[n].element.type
                    \in {"Divider", "Blockquote", "Text", "Keyword"}
                 => nodes[n].children_ids = <<>>
              /\ nodes[n].element.type = "Table" =>
                    [i \in 1..Len(nodes[n].children_ids) |->
                        nodes[nodes[n].children_ids[i]].element]
                    = << Text("x"), Keyword("TODO") >>
    /\ (qop = "children_for" /\ qpc = "returned") =>
          NodeRefs(qresult) = RuleChildren(NodeRef(qnode))

\* children_for has returned the five children of a definition list: the
\* first term, its definition, the second term and its two definitions.
C13_Witness ==
    /\ qop = "children_for"
    /\ qpc = "returned"
    /\ nodes[qnode].element.type = "DefinitionList"
    /\ Len(qresult) = 5
    /\ nodes[qresult[3]].element = Text("t2")

\* The i-th top-level element of the page, as a node refers to it.
PageElementRef(i) ==
    [kind |-> "Block", element |-> tpage[i].element,
     region |-> tpage[i].region]

\* C14: root_nodes() returns one node per top-level element of the page,
\* the i-th node for the i-th element, and these are exactly the nodes
\* without a parent.
C14_RootsAreTopLevel ==
    /\ tpc = "built" =>
          /\ Len(RootNodes) = Len(tpage)
          /\ \A i \in 1..Len(RootNodes) :
                NodeRef(RootNodes[i]) = PageElementRef(i)
          /\ Range(RootNodes) =
                {n \in DOMAIN nodes : nodes[n].parent_id = None}
    /\ (qop = "root_nodes" /\ qpc = "returned") =>
          /\ Len(qresult) = Len(tpage)
          /\ \A i \in 1..Len(qresult) : NodeRef(qresult[i]) = PageElementRef(i)
          /\ Range(qresult) = {n \in DOMAIN nodes : nodes[n].parent_id = None}

\* root_nodes() has returned the two roots of a tree that also holds a
\* block node that is no root (a nested list).
C14_Witness ==
    /\ qop = "root_nodes"
    /\ qpc = "returned"
    /\ Len(qresult) = 2
    /\ nodes[qresult[1]].element.type # nodes[qresult[2]].element.type
    /\ \E n \in DOMAIN nodes :
          nodes[n].kind = "Block" /\ n \notin Range(qresult)

\* A position <<line, column>> lies in a region when it is not before the
\* region's start and not after its end, in reading order.
Before(a, b) == a[1] < b[1] \/ (a[1] = b[1] /\ a[2] < b[2])
Within(r, p) == ~Before(p, r.start) /\ ~Before(r.end, p)

\* The top-level elements of the page whose region holds pos.
PageElementsAt(pos) == {i \in 1..Len(tpage) : Within(tpage[i].region, pos)}

\* C15: find_root_at(position) returns the first root, in the order of the
\* page, whose region contains the position, and none exactly when no
\* root's region contains it.
C15_FirstRootContaining ==
    (qop = "find_root_at" /\ qpc = "returned") =>
       /\ (qresult = None) <=> (PageElementsAt(qpos) = {})
       /\ qresult # None =>
             \E i \in PageElementsAt(qpos) :
                /\ \A j \in PageElementsAt(qpos) : i <= j
                /\ qresult = Some(root_nodes[i])
                /\ NodeRef(qresult[1]) = PageElementRef(i)

\* find_root_at has answered for a position that two roots contain, and
\* for one that no root contains.
C15_Witness ==
    /\ qop = "find_root_at"
    /\ qpc = "returned"
    /\ qresult # None
    /\ \E i, j \in PageElementsAt(qpos) : i # j

C15_WitnessNone ==
    /\ qop = "find_root_at"
    /\ qpc = "returned"
    /\ qresult = None
    /\ Len(tpage) = MaxBlocks

\* Two regions overlap when neither ends before the other starts.
Overlap(r1, r2) == ~Before(r1.end, r2.start) /\ ~Before(r2.end, r1.start)

\* The nodes that share n's parent (the other roots for a root).
SiblingIds(n) ==
    {m \in DOMAIN nodes : m # n /\ nodes[m].parent_id = nodes[n].parent_id}

\* The invariant of parsed documents that the tree assumes and does not
\* validate: the regions of siblings never overlap.
SiblingRegionsDisjoint ==
    \A n \in DOMAIN nodes : \A m \in SiblingIds(n) :
       ~Overlap(nodes[n].region, nodes[m].region)

FirstHolding(ids, pos) ==
    {ids[i] : i \in {i \in 1..Len(ids) :
                        /\ Within(nodes[ids[i]].region, pos)
                        /\ \A j \in 1..(i - 1) :
                              ~Within(nodes[ids[j]].region, pos)}}

\* The node reached from n by moving, at most k times, to the first child
\* whose region holds pos, and staying where no child holds it.
RECURSIVE Descent(_, _, _)
Descent(n, pos, k) ==
    IF k = 0 \/ FirstHolding(nodes[n].children_ids, pos) = {} THEN n
    ELSE Descent(CHOOSE c \in FirstHolding(nodes[n].children_ids, pos) : TRUE,
                 pos, k - 1)

\* What find_deepest_at(pos) has to return by its description.
DocumentedDeepest(pos) ==
    IF FirstHolding(root_nodes, pos) = {} THEN None
    ELSE Some(Descent(CHOOSE r \in FirstHolding(root_nodes, pos) : TRUE,
                      pos, Cardinality(DOMAIN nodes)))

\* The answer of a finished find_deepest_at agrees with its description.
DeepestAsDocumented ==
    (qop = "find_deepest_at" /\ qpc = "returned") =>
       /\ (qresult = None) <=> (FirstHolding(root_nodes, qpos) = {})
       /\ qresult = DocumentedDeepest(qpos)
       /\ qresult # None =>
             /\ \A c \in Range(nodes[qresult[1]].children_ids) :
                   ~Within(nodes[c].region, qpos)
             /\ nodes[qresult[1]].root_id \in FirstHolding(root_nodes, qpos)
             /\ \E a \in AncestorsOrSelf(qresult[1]) :
                   /\ nodes[a].parent_id = None
                   /\ a \in FirstHolding(root_nodes, qpos)

\* C17: find_deepest_at(pos) is none exactly when find_root_at(pos) is
\* none; otherwise it is the node reached from that root by repeatedly
\* moving to the first child containing pos, which has no child containing
\* pos and whose root is that root; and the descent always terminates.
C17_DescentFromRootTerminates ==
    /\ []DeepestAsDocumented
    /\ (qop = "find_deepest_at" /\ qpc = "descending")
          ~> (qop = "find_deepest_at" /\ qpc = "returned")

\* find_deepest_at has descended from a root and returned a node that has
\* a later sibling also holding the position.
C17_Witness ==
    /\ qop = "find_deepest_at"
    /\ qpc = "returned"
    /\ qresult # None
    /\ nodes[qresult[1]].parent_id # None
    /\ \E a \in AncestorsOrSelf(qresult[1]) : \E m \in SiblingIds(a) :
          m > a /\ Within(nodes[m].region, qpos)

\* find_deepest_at has answered for a position inside "bold" of the
\* paragraph "abc *bold*" (tests::test_page) that is a root of the page.
BoldScenario ==
    /\ qop = "find_deepest_at"
    /\ qpc = "returned"
    /\ qpos[1] \in 1..Len(tpage)
    /\ tpage[qpos[1]] = ParagraphAt(qpos[1])
    /\ qpos[2] \in 4..7
    /\ FirstHolding(root_nodes, qpos) = {root_nodes[qpos[1]]}

\* C18: for the paragraph "abc *bold*", find_deepest_at at a position
\* inside "bold" returns the Text("bold") node, whose parent is the
\* DecoratedText(Bold) node, whose parent is the paragraph's block node,
\* which is a root: a parent chain of three nodes, the inline content
\* container having no node of its own.
C18_BoldChainOfThree ==
    BoldScenario =>
       /\ qresult # None
       /\ Cardinality(AncestorsOrSelf(qresult[1])) = 3
       /\ NodeRef(qresult[1]) =
             [kind |-> "Inline", element |-> Text("bold"),
              region |-> Region(qpos[1], 4, qpos[1], 7)]
       /\ nodes[Up(qresult[1], 1)].kind = "Inline"
       /\ nodes[Up(qresult[1], 1)].element.type = "DecoratedText"
       /\ nodes[Up(qresult[1], 1)].element.kind = "Bold"
       /\ NodeRef(Up(qresult[1], 2)) = PageElementRef(qpos[1])
       /\ nodes[Up(qresult[1], 2)].parent_id = None
       /\ Up(qresult[1], 2) = root_nodes[qpos[1]]

\* The scenario on the page of tests::test_page: a divider, then the
\* paragraph, asked at (2, 4).
C18_Witness ==
    /\ BoldScenario
    /\ tpage = <<DividerAt(1), ParagraphAt(2)>>
    /\ qpos = <<2, 4>>
    /\ qresult # None

\* C18 as documented: the DecoratedText(Bold) node's parent is a node for
\* the paragraph's inline content container, whose parent is the
\* paragraph's root node: a parent chain of four nodes.
C18_BoldChainOfFour ==
    BoldScenario =>
       /\ qresult # None
       /\ Cardinality(AncestorsOrSelf(qresult[1])) = 4
       /\ nodes[Up(qresult[1], 1)].element.type = "DecoratedText"
       /\ nodes[Up(qresult[1], 2)].element =
             tpage[qpos[1]].element.content
       /\ NodeRef(Up(qresult[1], 3)) = PageElementRef(qpos[1])
       /\ nodes[Up(qresult[1], 3)].parent_id = None

\* The sequence s without the occurrences of x, the order kept.
RECURSIVE Without(_, _)
Without(s, x) ==
    IF s = <<>> THEN <<>>
    ELSE (IF Head(s) = x THEN <<>> ELSE <<Head(s)>>) \o Without(Tail(s), x)

\* The list n is a member of: its parent's children, or the roots.
ListOf(n) ==
    IF nodes[n].parent_id = None THEN root_nodes
    ELSE nodes[nodes[n].parent_id[1]].children_ids

\* C19: siblings_for(n) never contains n; it is the parent's children
\* without n in child order, or for a root the other roots in the order of
\* the page; and m is a sibling of n exactly when n is a sibling of m.
C19_SiblingsExcludeSelf ==
    /\ (qop = "siblings_for" /\ qpc = "returned") =>
          /\ qnode \notin Range(qresult)
          /\ qresult = Without(ListOf(qnode), qnode)
    /\ tpc = "built" =>
          \A n \in DOMAIN nodes :
             \E sn \in {siblings_for(n)} :
                /\ n \notin Range(sn)
                /\ \A m \in Range(sn) : n \in Range(siblings_for(m))

\* siblings_for has answered for a node that has siblings before and
\* after it under a parent, and for a root with another root.
C19_Witness ==
    /\ qop = "siblings_for"
    /\ qpc = "returned"
    /\ nodes[qnode].parent_id # None
    /\ \E i, j \in 1..Len(qresult) : qresult[i] < qnode /\ qnode < qresult[j]

C19_WitnessRoot ==
    /\ qop = "siblings_for"
    /\ qpc = "returned"
    /\ nodes[qnode].parent_id = None
    /\ qresult # <<>>

\* C20: in a built tree parent and child links agree: parent_for(n) is p
\* exactly when n is among children_for(p); parent_for(n) is none exactly
\* when n is a root; and every id of a node's child list is the id of a
\* node of the tree.
C20_ParentChildAgree ==
    /\ tpc = "built" =>
          /\ \A n \in DOMAIN nodes : \A p \in DOMAIN nodes :
                (nodes[n].parent_id = Some(p))
                   <=> (n \in Range(nodes[p].children_ids))
          /\ \A n \in DOMAIN nodes :
                /\ (nodes[n].parent_id = None) <=> (n \in Range(root_nodes))
                /\ nodes[n].parent_id # None =>
                      nodes[n].parent_id[1] \in DOMAIN nodes
                /\ Range(nodes[n].children_ids) \subseteq DOMAIN nodes
    /\ (qop = "parent_for" /\ qpc = "returned") =>
          /\ qresult = nodes[qnode].parent_id
          /\ (qresult = None) <=> (qnode \in Range(root_nodes))
          /\ qresult # None => qnode \in Range(nodes[qresult[1]].children_ids)
    /\ (qop = "children_for" /\ qpc = "returned") =>
          /\ qresult = nodes[qnode].children_ids
          /\ \A c \in Range(qresult) : nodes[c].parent_id = Some(qnode)

\* parent_for has answered with a parent that is not a root, of which the
\* node is not the first child.
C20_Witness ==
    /\ qop = "parent_for"
    /\ qpc = "returned"
    /\ qresult # None
    /\ nodes[qresult[1]].parent_id # None
    /\ Len(nodes[qresult[1]].children_ids) >= 2
    /\ nodes[qresult[1]].children_ids[1] # qnode

C20_WitnessChildren ==
    /\ qop = "children_for"
    /\ qpc = "returned"
    /\ Len(qresult) >= 2
    /\ nodes[qnode].parent_id # None

\* The nodes without a parent among n and its ancestors.
TopAncestors(n) == {a \in AncestorsOrSelf(n) : nodes[a].parent_id = None}

\* C21: in a built tree root_for(n) is the node at the top of n's parent
\* links, a root is its own root, and is_root(n) holds exactly when n has
\* no parent; a block node of a nested list has the root of the outermost
\* list as its root, not itself.
C21_RootIsTopAncestor ==
    /\ tpc = "built" =>
          \A n \in DOMAIN nodes :
             /\ root_for(n) # None
             /\ TopAncestors(n) = {root_for(n)[1]}
             /\ root_for(n)[1] \in Range(root_nodes)
             /\ n \in Range(root_nodes) => root_for(n) = Some(n)
             /\ is_root(n) <=> (nodes[n].parent_id = None)
             /\ (nodes[n].kind = "Block" /\ nodes[n].parent_id # None) =>
                   /\ nodes[n].root_id # n
                   /\ nodes[n].root_id = nodes[nodes[n].parent_id[1]].root_id
    /\ (qop = "root_for" /\ qpc \in {"returned", "panicked"}) =>
          /\ qpc = "returned"
          /\ qresult # None
          /\ TopAncestors(qnode) = {qresult[1]}

\* root_for has answered for the block node of a list nested in a nested
\* list.
C21_Witness ==
    /\ qop = "root_for"
    /\ qpc = "returned"
    /\ nodes[qnode].kind = "Block"
    /\ nodes[qnode].parent_id # None
    /\ nodes[nodes[qnode].parent_id[1]].parent_id # None
    /\ qresult # Some(qnode)

\* No step taken on a built tree changes the page reference, the node map
\* or the root list, or unbuilds the tree.
BuiltTreeUnchanged ==
    tpc = "built" =>
       /\ tpc' = "built"
       /\ tpage' = tpage
       /\ nodes' = nodes
       /\ root_nodes' = root_nodes

\* C22: after from_page has returned, no sequence of queries changes the
\* node map or the root list, and root_for never fails to find the root
\* (its panic "Tree mutated after construction" is not reached).
C22_IndexImmutable ==
    /\ [][BuiltTreeUnchanged]_vars
    /\ [](qpc # "panicked")

\* A query that descended two levels has returned on a built tree of all
\* the page's elements.
C22_Witness ==
    /\ tpc = "built"
    /\ qop = "find_deepest_at"
    /\ qpc = "returned"
    /\ qresult # None
    /\ Cardinality(AncestorsOrSelf(qresult[1])) >= 3
    /\ DOMAIN nodes = 1..Len(ReachableElements(tpage))
    /\ Len(root_nodes) = Len(tpage)

C23_WitnessLineFirst ==
    /\ qop = "find_root_at"
    /\ qpc = "returned"
    /\ qresult # None
    /\ qpos[1] < nodes[qresult[1]].region.end[1]
    /\ qpos[2] > nodes[qresult[1]].region.end[2]

C23_WitnessStart ==
    /\ qop = "find_deepest_at"
    /\ qpc = "returned"
    /\ tpage = <<DividerAt(1), ParagraphAt(2)>>
    /\ qpos = <<2, 4>>
    /\ qresult # None
    /\ nodes[qresult[1]].region.start = qpos

(***************************************************************************)
(* Two calls of ElementTree::from_page on one page, on two threads, and    *)
(* two readers of the tree the first call returns                          *)
(***************************************************************************)
Builders == {1, 2}

Readers == {1, 2}

\* The pages that are built twice: of paragraphs and of nested lists.
SharedSampleNames == {"Paragraph", "List"}

SharedPages ==
    { [i \in 1..Len(ns) |-> BlockSampleAt(ns[i], i)] :
        ns \in SeqsUpTo(SharedSampleNames, MaxBlocks) }

\* The positions the readers ask at: in the bold text of a paragraph, in
\* the innermost list of a list.
ReaderColumns == {5}

ReaderPositions == (1..MaxBlocks) \X ReaderColumns

\* One counter cell for every call: a static in place of the local.
shared_counter_cell(t) == 1

\* let counter = AtomicUsize::new(..): a local of the call, a cell of its
\* own.
counter_cell(t) == t

\* Self { page, root_nodes: vec![], nodes: HashMap::new() }, with the
\* call's progress: the calls in progress and the loop's index.
NewInstance ==
    [nodes |-> <<>>, root_nodes |-> <<>>, stack |-> <<>>, next |-> 1,
     pc |-> "building"]

\* A reader that has no call of find_deepest_at in progress.
IdleReader == [pc |-> "idle", pos |-> <<0, 0>>, node |-> 0, result |-> None]

InitBuilds ==
    /\ bpage \in SharedPages
    /\ builds = [t \in Builders |-> NewInstance]
    /\ counters = [t \in Builders |-> EMPTY_NODE + 1]
    /\ readers = [r \in Readers |-> IdleReader]

\* The step of AddRootElement, taken by call t on its own instance.
BuildAddRootElement(t) ==
    /\ builds[t].pc = "building"
    /\ builds[t].stack = <<>>
    /\ builds[t].next <= Len(bpage)
    /\ \E f \in {fetch_add(counters[counter_cell(t)])} :
          /\ counters' = [counters EXCEPT ![counter_cell(t)] = f.counter]
          /\ builds' =
                [builds EXCEPT
                    ![t].stack =
                        << Call(f.id, block_root_id(EMPTY_NODE, f.id), None,
                                BlockRef(bpage[builds[t].next].element,
                                         bpage[builds[t].next].region)) >>]
    /\ UNCHANGED <<bpage, readers>>
    /\ UNCHANGED notConcVars

\* The step of AddChildElement, taken by call t.
BuildAddChildElement(t) ==
    /\ builds[t].pc = "building"
    /\ Len(builds[t].stack) >= 1
    /\ Len(builds[t].stack[Len(builds[t].stack)].pending) >= 1
    /\ \E st \in {builds[t].stack} :
       \E top \in {st[Len(st)]} :
       \E f \in {fetch_add(counters[counter_cell(t)])} :
          /\ counters' = [counters EXCEPT ![counter_cell(t)] = f.counter]
          /\ builds' =
                [builds EXCEPT
                    ![t].stack =
                        Append([st EXCEPT ![Len(st)].pending =
                                              Tail(top.pending)],
                               Call(f.id,
                                    element_root_id(Head(top.pending),
                                                    top.root_id, f.id),
                                    child_parent_id(top),
                                    Head(top.pending)))]
    /\ UNCHANGED <<bpage, readers>>
    /\ UNCHANGED notConcVars

\* The step of InsertNode, taken by call t.
BuildInsertNode(t) ==
    /\ builds[t].pc = "building"
    /\ Len(builds[t].stack) >= 1
    /\ Len(builds[t].stack[Len(builds[t].stack)].pending) = 0
    /\ \E st \in {builds[t].stack} :
       \E top \in {st[Len(st)]} :
          builds' =
             [builds EXCEPT
                 ![t].nodes = insert(@, top.element_id, ElementNode(top)),
                 ![t].stack =
                     IF Len(st) = 1 THEN <<>>
                     ELSE [SubSeq(st, 1, Len(st) - 1) EXCEPT
                              ![Len(st) - 1].children_ids =
                                  push(@, top.element_id)],
                 ![t].root_nodes =
                     IF Len(st) = 1 THEN push(@, top.element_id) ELSE @,
                 ![t].next = IF Len(st) = 1 THEN @ + 1 ELSE @]
    /\ UNCHANGED <<bpage, counters, readers>>
    /\ UNCHANGED notConcVars

\* Call t of from_page returns its instance.
BuildReturn(t) ==
    /\ builds[t].pc = "building"
    /\ builds[t].stack = <<>>
    /\ builds[t].next > Len(bpage)
    /\ builds' = [builds EXCEPT ![t].pc = "built"]
    /\ UNCHANGED <<bpage, counters, readers>>
    /\ UNCHANGED notConcVars

\* .iter().find(|n| n.region().contains(position)) over the nodes of ids
\* that the tree tree holds.
find_in(tree, ids, pos) ==
    LET present == SelectSeq(ids, LAMBDA id : id \in DOMAIN tree.nodes)
    IN  AtLeast(present,
                {i \in 1..Len(present) :
                    contains(tree.nodes[present[i]].region, pos)})

\* Reader r calls find_deepest_at(position) on the tree the first call
\* returned: find_root_at, then the loop or None.
ReadStart(r) ==
    /\ builds[1].pc = "built"
    /\ readers[r].pc = "idle"
    /\ \E pos \in ReaderPositions :
       \E root \in {find_in(builds[1], builds[1].root_nodes, pos)} :
          readers' =
             [readers EXCEPT ![r] =
                 IF root # None
                 THEN [pc |-> "descending", pos |-> pos, node |-> root[1],
                       result |-> None]
                 ELSE [pc |-> "returned", pos |-> pos, node |-> 0,
                       result |-> None]]
    /\ UNCHANGED <<bpage, builds, counters>>
    /\ UNCHANGED notConcVars

\* A turn of reader r's loop that finds a child: curr = next.
ReadDescend(r) ==
    /\ readers[r].pc = "descending"
    /\ \E next \in {find_in(builds[1],
                             builds[1].nodes[readers[r].node].children_ids,
                             readers[r].pos)} :
          /\ next # None
          /\ readers' = [readers EXCEPT ![r].node = next[1]]
    /\ UNCHANGED <<bpage, builds, counters>>
    /\ UNCHANGED notConcVars

\* The turn of reader r's loop that finds no child: break Some(curr).
ReadBreak(r) ==
    /\ readers[r].pc = "descending"
    /\ find_in(builds[1], builds[1].nodes[readers[r].node].children_ids,
               readers[r].pos) = None
    /\ readers' = [readers EXCEPT ![r].pc = "returned",
                                  ![r].result = Some(readers[r].node)]
    /\ UNCHANGED <<bpage, builds, counters>>
    /\ UNCHANGED notConcVars

\* Reader r has taken its answer and may ask again.
ReadReturn(r) ==
    /\ readers[r].pc = "returned"
    /\ readers' = [readers EXCEPT ![r] = IdleReader]
    /\ UNCHANGED <<bpage, builds, counters>>
    /\ UNCHANGED notConcVars

NextBuilds ==
    \/ \E t \in Builders : BuildAddRootElement(t)
    \/ \E t \in Builders : BuildAddChildElement(t)
    \/ \E t \in Builders : BuildInsertNode(t)
    \/ \E t \in Builders : BuildReturn(t)
    \/ \E r \in Readers : ReadStart(r)
    \/ \E r \in Readers : ReadDescend(r)
    \/ \E r \in Readers : ReadBreak(r)
    \/ \E r \in Readers : ReadReturn(r)

InitBuildsOnly ==
    InitBuilds /\ IdlePage /\ IdleInline /\ IdleLink /\ IdleNormalize
    /\ IdleTree /\ IdleQuote /\ IdleConfig /\ IdleConvert

SpecBuilds == InitBuildsOnly /\ [][NextBuilds]_vars

(***************************************************************************)
(* Properties of builds and readers on several threads                     *)
(***************************************************************************)
\* The ids call t has taken: of its nodes and of its calls in progress.
IdsTaken(t) ==
    (DOMAIN builds[t].nodes)
       \cup {builds[t].stack[i].element_id : i \in 1..Len(builds[t].stack)}

\* The node reached in tree from n by moving, at most k times, to the
\* first child whose region holds pos.
RECURSIVE DescentIn(_, _, _, _)
DescentIn(tree, n, pos, k) ==
    LET holding == {i \in 1..Len(tree.nodes[n].children_ids) :
                       Within(tree.nodes[tree.nodes[n].children_ids[i]].region,
                              pos)}
    IN  IF k = 0 \/ holding = {} THEN n
        ELSE DescentIn(tree,
                       tree.nodes[n].children_ids[
                           CHOOSE i \in holding : \A j \in holding : i <= j],
                       pos, k - 1)

\* What one reader alone gets from find_deepest_at(pos) on tree.
SingleReaderAnswer(tree, pos) ==
    LET holding == {i \in 1..Len(tree.root_nodes) :
                       Within(tree.nodes[tree.root_nodes[i]].region, pos)}
    IN  IF holding = {} THEN None
        ELSE Some(DescentIn(tree,
                            tree.root_nodes[
                                CHOOSE i \in holding : \A j \in holding : i <= j],
                            pos, Cardinality(DOMAIN tree.nodes)))

\* C24: two calls of from_page on one page share no state: each takes its
\* ids 1, 2, .. from its own counter however the calls' steps interleave,
\* so the trees they return are equal (same ids, root ids, parent ids,
\* child lists, root list) and are the tree of a build on its own; and
\* readers of a returned tree that run at the same time get the answers a
\* single reader gets.
C24_BuildsShareNoState ==
    /\ \A t \in Builders :
          /\ IdsTaken(t) = 1..(counters[t] - 1)
          /\ builds[t].pc = "built" =>
                LET reached == ReachableElements(bpage)
                IN  /\ DOMAIN builds[t].nodes = 1..Len(reached)
                    /\ \A n \in DOMAIN builds[t].nodes :
                          [kind |-> builds[t].nodes[n].kind,
                           element |-> builds[t].nodes[n].element,
                           region |-> builds[t].nodes[n].region] = reached[n]
    /\ \A t, u \in Builders :
          (builds[t].pc = "built" /\ builds[u].pc = "built") =>
             /\ builds[t].nodes = builds[u].nodes
             /\ builds[t].root_nodes = builds[u].root_nodes
    /\ \A r \in Readers :
          readers[r].pc = "returned" =>
             readers[r].result = SingleReaderAnswer(builds[1], readers[r].pos)

\* Both calls are in the middle of a nested list, each holding ids the
\* other holds too.
C24_WitnessInterleaved ==
    /\ \A t \in Builders : builds[t].pc = "building" /\ Len(builds[t].stack) >= 3
    /\ builds[1].nodes # <<>>
    /\ builds[1].nodes # builds[2].nodes
    /\ IdsTaken(1) \cap IdsTaken(2) # {}

\* Both calls have returned the tree of a page with a nested list, and
\* both readers have an answer below a root, at different positions.
C24_Witness ==
    /\ \A t \in Builders : builds[t].pc = "built"
    /\ \E i \in 1..Len(bpage) : bpage[i] = ListAt(i)
    /\ \A r \in Readers :
          /\ readers[r].pc = "returned"
          /\ readers[r].result # None
          /\ builds[1].nodes[readers[r].result[1]].parent_id # None
    /\ readers[1].pos # readers[2].pos

\* A reader is in its loop while the second call of from_page is still
\* adding nodes.
C24_WitnessReaderDuringBuild ==
    /\ builds[2].pc = "building"
    /\ builds[2].stack # <<>>
    /\ readers[1].pc = "descending"
    /\ readers[2].pc = "returned"

(***************************************************************************)
(* Inline elements and lines                                               *)
(***************************************************************************)
\* The positions of the line endings in the text handed to the container.
LineBreaks == {k \in 1..Len(iinput) : iinput[k] = NL}

C25_WitnessLink ==
    /\ ipc = "ok"
    /\ iinput = <<"[", "[", "f", "i", "l", "e", ":", "a", "|", NL,
                  "[", "[", "a", "]", "]">>
    /\ ipos = 9

(***************************************************************************)
(* What external_file_link rejects                                         *)
(***************************************************************************)
\* The text t has no "|", no line break and no "]]" in it.
IsCleanText(t) ==
    \A i \in 1..Len(t) :
       /\ t[i] \notin {"|", NL}
       /\ ~(t[i] = "]" /\ i < Len(t) /\ t[i + 1] = "]")

\* The text begins with a link of the documented shape.
HasSomeLinkShape(s) ==
    \E d \in DocumentedSchemes : \E n \in 1..Len(s) : \E m \in 0..Len(s) :
       HasLinkShape(s, d, n, m)

\* The position after "[[" and the keyword of a scheme, where there is one.
AfterKeyword(s) ==
    {2 + Len(d.text) : d \in {d \in DocumentedSchemes :
                                 HasAt(s, 0, <<"[", "[">> \o d.text)}}

\* The position k at which the line of s that holds position a ends.
EndOfLineFrom(s, a) ==
    CHOOSE k \in a..Len(s) :
       /\ k = Len(s) \/ s[k + 1] = NL
       /\ \A j \in (a + 1)..k : s[j] # NL

\* The ways a text fails to be an external file link: no scheme keyword
\* after "[[", an empty path, a "|" directly before "]]", a second "|"
\* after the description, no "]]" on the line.
SchemeMissing(s) == AfterKeyword(s) = {}
PathEmpty(s) ==
    \E a \in AfterKeyword(s) :
       a = Len(s) \/ s[a + 1] \in {"|", NL} \/ HasAt(s, a, <<"]", "]">>)
BarBeforeClose(s) ==
    \E a \in AfterKeyword(s) : \E n \in 1..Len(s) :
       IsSegmentText(s, a, n) /\ HasAt(s, a + n, <<"|", "]", "]">>)
SecondBar(s) ==
    \E a \in AfterKeyword(s) : \E n, m \in 1..Len(s) :
       /\ IsSegmentText(s, a, n)
       /\ HasAt(s, a + n, <<"|">>)
       /\ IsSegmentText(s, a + n + 1, m)
       /\ HasAt(s, a + n + 1 + m, <<"|">>)
CloseMissing(s) ==
    \E a \in AfterKeyword(s) :
       \A k \in a..(EndOfLineFrom(s, a) - 2) : ~HasAt(s, k, <<"]", "]">>)

\* C26: external_file_link succeeds only on "[[" scheme path ("|"
\* description)? "]]" on one line, path and description not empty; it
\* fails, returning no link, when the scheme keyword is missing, the path
\* is empty, "|" stands directly before "]]", a second "|" follows the
\* description, or "]]" is missing on the line; and the path and the
\* description of a link hold no "|", no "]]" and no line break.
C26_ExternalFileLinkRejects ==
    lpc = "returned" =>
       /\ lresult.ok => HasSomeLinkShape(linput)
       /\ lresult.ok =>
             /\ Len(lresult.link.path) >= 1
             /\ IsCleanText(lresult.link.path)
             /\ lresult.link.description # None =>
                   /\ Len(lresult.link.description[1]) >= 1
                   /\ IsCleanText(lresult.link.description[1])
             /\ \A k \in 1..lresult.rest : linput[k] # NL
       /\ ~lresult.ok => DOMAIN lresult = {"ok", "rest"}
       /\ \/ SchemeMissing(linput)
          \/ PathEmpty(linput)
          \/ BarBeforeClose(linput)
          \/ SecondBar(linput)
          \/ CloseMissing(linput)
          => ~lresult.ok

\* [[file:a|]] has been rejected: a "|" and no description.
C26_Witness ==
    /\ lpc = "returned"
    /\ linput = <<"[", "[", "f", "i", "l", "e", ":", "a", "|", "]", "]">>
    /\ ~lresult.ok

\* Rejected for each of the other reasons.
C26_WitnessOthers ==
    /\ lpc = "returned"
    /\ ~lresult.ok
    /\ \/ SchemeMissing(linput) /\ HasAt(linput, 0, <<"[", "[", "a", "]", "]">>)
       \/ PathEmpty(linput)
       \/ SecondBar(linput)
       \/ CloseMissing(linput)

(***************************************************************************)
(* Blockquote::line_groups and line_group_cnt                              *)
(***************************************************************************)
\* The lines a blockquote is made of: empty, of a letter, of a blank.
QuoteLineSamples == {"", "a", " "}

Blockquotes == SeqsUpTo(QuoteLineSamples, MaxQuoteLines)

\* str::is_empty
is_empty(line) == line = ""

\* slice::split(|line| line.is_empty()): the slices between the lines that
\* match, the empty ones among them, the matching lines left out.
RECURSIVE split(_)
split(ls) ==
    LET at == {i \in 1..Len(ls) : is_empty(ls[i])}
    IN  IF at = {} THEN <<ls>>
        ELSE LET i == CHOOSE i \in at : \A j \in at : i <= j
             IN  <<SubSeq(ls, 1, i - 1)>> \o split(SubSeq(ls, i + 1, Len(ls)))

\* line_groups without its filter: every slice split yields.
line_groups_unfiltered(ls) == split(ls)

\* Blockquote::line_groups: .split(..).filter(|lines| !lines.is_empty())
line_groups(ls) == SelectSeq(split(ls), LAMBDA lines : lines # <<>>)

\* Blockquote::line_group_cnt: self.line_groups().count()
line_group_cnt(ls) == Len(line_groups(ls))

InitQuote ==
    /\ bqlines \in Blockquotes
    /\ bqgroups = None
    /\ bqcnt = None

\* line_groups() is called and its iterator run to the end.
LineGroups ==
    /\ bqgroups = None
    /\ bqgroups' = Some(line_groups(bqlines))
    /\ UNCHANGED <<bqlines, bqcnt>>
    /\ UNCHANGED notQuoteVars

\* line_group_cnt() is called.
LineGroupCnt ==
    /\ bqcnt = None
    /\ bqcnt' = Some(line_group_cnt(bqlines))
    /\ UNCHANGED <<bqlines, bqgroups>>
    /\ UNCHANGED notQuoteVars

NextQuote == LineGroups \/ LineGroupCnt

InitQuoteOnly ==
    InitQuote /\ IdlePage /\ IdleInline /\ IdleLink /\ IdleNormalize
    /\ IdleTree /\ IdleBuilds /\ IdleConfig /\ IdleConvert

SpecQuote == InitQuoteOnly /\ [][NextQuote]_vars

(***************************************************************************)
(* Properties of Blockquote::line_groups                                   *)
(***************************************************************************)
\* The runs of non-empty lines that cannot be made longer, as pairs of the
\* index of their first and of their last line.
MaximalRuns(ls) ==
    {run \in (1..Len(ls)) \X (1..Len(ls)) :
        /\ run[1] <= run[2]
        /\ \A i \in run[1]..run[2] : ls[i] # ""
        /\ run[1] = 1 \/ ls[run[1] - 1] = ""
        /\ run[2] = Len(ls) \/ ls[run[2] + 1] = ""}

\* C27: line_groups yields, in order, exactly the maximal runs of
\* consecutive non-empty lines: no group is empty or holds an empty line,
\* the groups one after the other are the lines without the empty ones,
\* and line_group_cnt is the number of the runs.
C27_LineGroupsAreMaximalRuns ==
    /\ bqgroups # None =>
          LET groups == bqgroups[1]
              runs == MaximalRuns(bqlines)
          IN  /\ Len(groups) = Cardinality(runs)
              /\ \A g \in 1..Len(groups) :
                    /\ groups[g] # <<>>
                    /\ \A i \in 1..Len(groups[g]) : groups[g][i] # ""
                    /\ \E run \in runs :
                          /\ groups[g] = SubSeq(bqlines, run[1], run[2])
                          /\ Cardinality({r \in runs : r[1] < run[1]}) = g - 1
              /\ Concat(groups) = SelectSeq(bqlines, LAMBDA l : l # "")
    /\ bqcnt # None =>
          /\ bqcnt[1] = Cardinality(MaximalRuns(bqlines))
          /\ (\A i \in 1..Len(bqlines) : bqlines[i] = "") => bqcnt[1] = 0

\* Both have been called on a blockquote that starts with an empty line
\* and has two groups, one of them a line of a blank.
C27_Witness ==
    /\ bqlines = <<"", "a", "", " ">>
    /\ bqgroups # None
    /\ Len(bqgroups[1]) = 2
    /\ bqcnt = Some(2)

\* line_group_cnt is 0 for a blockquote of empty lines only.
C27_WitnessNone ==
    /\ bqlines = <<"", "">>
    /\ bqgroups = Some(<<>>)
    /\ bqcnt = Some(0)

(***************************************************************************)
(* HtmlConfig: the active wiki and the active page                         *)
(* (src/vimwiki/src/lang/output/html/config.rs)                            *)
(*                                                                         *)
(* A path is the sequence of its components, as Path::components yields    *)
(* them: RootDir first for an absolute path, then the names.               *)
(***************************************************************************)
MaxComponents == 3
MaxWikis == 2

RootDir == "/"
ParentDir == ".."
NormalNames == {"a", "f"}

\* The pages: relative and absolute paths of up to MaxComponents components.
PagePaths ==
    SeqsUpTo(NormalNames, MaxComponents)
       \cup {<<RootDir>> \o p : p \in SeqsUpTo(NormalNames, MaxComponents - 1)}

\* The wiki roots: the default path (empty), a directory and one inside it.
WikiRootSamples == {<<>>, <<RootDir, "a">>, <<RootDir, "a", "f">>}

HtmlWikiConfig(path) == [path |-> path]

HtmlConfigs ==
    [wikis : SeqsUpTo({HtmlWikiConfig(p) : p \in WikiRootSamples}, MaxWikis),
     runtime : [wiki_index : {None} \cup {Some(i) : i \in 0..MaxWikis},
                page : PagePaths]]

\* Path::strip_prefix: what is left of path after base, when the components
\* of base are the first components of path.
strip_prefix(path, base) ==
    IF Len(base) <= Len(path) /\ SubSeq(path, 1, Len(base)) = base
    THEN Some(SubSeq(path, Len(base) + 1, Len(path)))
    ELSE None

\* Path::parent: the path without its last component; none for the empty
\* path and for the root directory.
parent(path) ==
    IF path = <<>> \/ path[Len(path)] = RootDir
    THEN None
    ELSE Some(SubSeq(path, 1, Len(path) - 1))

get_root_path(wiki) == wiki.path

path_within(wiki, path) == strip_prefix(path, get_root_path(wiki))

\* path_to_root with one ".." for the file itself as well.
path_to_root_with_file(wiki, path) ==
    LET within == path_within(wiki, path) IN
    IF within = None \/ Len(within[1]) = 0
    THEN None
    ELSE Some([i \in 1..Len(within[1]) |-> ParentDir])

path_to_root(wiki, path) ==
    LET within == path_within(wiki, path) IN
    IF within = None
    THEN None
    ELSE LET hops_back == Len(within[1]) IN
         IF hops_back > 0
         THEN Some([i \in 1..(hops_back - 1) |-> ParentDir])
         ELSE None

active_wiki_index(runtime) == runtime.wiki_index

active_page(cfg) == cfg.runtime.page

to_tmp_wiki(runtime) ==
    LET dir == parent(runtime.page) IN
    HtmlWikiConfig(IF dir = None THEN <<>> ELSE dir[1])

\* Vec::get with a 0-based index.
find_wiki_by_index(cfg, idx) ==
    IF idx + 1 \in DOMAIN cfg.wikis THEN Some(cfg.wikis[idx + 1]) ELSE None

find_active_wiki(cfg) ==
    LET idx == active_wiki_index(cfg.runtime) IN
    IF idx = None THEN None ELSE find_wiki_by_index(cfg, idx[1])

to_current_wiki(cfg) ==
    LET wiki == find_active_wiki(cfg) IN
    IF wiki = None THEN to_tmp_wiki(cfg.runtime) ELSE wiki[1]

\* Before the expect: none is where the expect panics.
as_active_page_path_within_wiki(cfg) ==
    path_within(to_current_wiki(cfg), active_page(cfg))

to_active_page_path_to_wiki_root(cfg) ==
    LET wiki == find_active_wiki(cfg) IN
    LET hops == IF wiki = None THEN None
                ELSE path_to_root(wiki[1], active_page(cfg)) IN
    IF hops = None THEN <<>> ELSE hops[1]

\* What a call left behind: the operation, the wiki it was made on (0 when
\* it is made on the configuration), its value, and whether it panicked.
Called(op, wiki, out, panicked) ==
    [op |-> op, wiki |-> wiki, out |-> out, panicked |-> panicked]

InitConfig ==
    /\ config \in HtmlConfigs
    /\ called = None

\* config.as_active_page_path_within_wiki()
AsActivePagePathWithinWiki ==
    /\ config \in HtmlConfigs
    /\ called = None
    /\ \E r \in {as_active_page_path_within_wiki(config)} :
          called' = Some(Called("as_active_page_path_within_wiki", 0, r,
                                r = None))
    /\ UNCHANGED <<config, notConfigVars>>

\* config.to_current_wiki()
ToCurrentWiki ==
    /\ config \in HtmlConfigs
    /\ called = None
    /\ called' = Some(Called("to_current_wiki", 0,
                             Some(to_current_wiki(config).path), FALSE))
    /\ UNCHANGED <<config, notConfigVars>>

\* config.to_active_page_path_to_wiki_root()
ToActivePagePathToWikiRoot ==
    /\ config \in HtmlConfigs
    /\ called = None
    /\ called' = Some(Called("to_active_page_path_to_wiki_root", 0,
                             Some(to_active_page_path_to_wiki_root(config)),
                             FALSE))
    /\ UNCHANGED <<config, notConfigVars>>

\* config.wikis[i].path_to_root(page), for any wiki of the configuration.
PathToRoot ==
    /\ config \in HtmlConfigs
    /\ called = None
    /\ \E i \in DOMAIN config.wikis :
          called' = Some(Called("path_to_root", i,
                                path_to_root(config.wikis[i],
                                             active_page(config)),
                                FALSE))
    /\ UNCHANGED <<config, notConfigVars>>

NextConfig ==
    \/ AsActivePagePathWithinWiki
    \/ ToCurrentWiki
    \/ ToActivePagePathToWikiRoot
    \/ PathToRoot

InitConfigOnly ==
    InitConfig /\ IdlePage /\ IdleInline /\ IdleLink /\ IdleNormalize
    /\ IdleTree /\ IdleBuilds /\ IdleQuote /\ IdleConvert

SpecConfig == InitConfigOnly /\ [][NextConfig]_vars

(***************************************************************************)
(* Properties of HtmlConfig                                                *)
(***************************************************************************)
IsPathPrefix(base, path) ==
    Len(base) <= Len(path) /\ SubSeq(path, 1, Len(base)) = base

Made(op) == called # None /\ called[1].op = op

\* C28: as_active_page_path_within_wiki always succeeds and returns the
\* active page's path relative to the root of its wiki: whatever the wikis,
\* the wiki_index and the page, the wiki chosen by to_current_wiki has a
\* root that is a prefix of the page, so the expect never panics.
C28_NeverPanics ==
    /\ Made("as_active_page_path_within_wiki") =>
          /\ ~called[1].panicked
          /\ called[1].out # None
          /\ to_current_wiki(config).path \o called[1].out[1]
                = active_page(config)
    /\ Made("to_current_wiki") =>
          IsPathPrefix(called[1].out[1], active_page(config))

\* The call panics exactly when wiki_index names a wiki of the list whose
\* root is not a prefix of the page; without such an index the temporary
\* wiki (the page's directory) is used and the call succeeds.
C28_PanicsOnForeignActiveWiki ==
    Made("as_active_page_path_within_wiki") =>
       LET idx == config.runtime.wiki_index IN
       called[1].panicked <=>
          /\ idx # None
          /\ idx[1] + 1 \in DOMAIN config.wikis
          /\ ~IsPathPrefix(config.wikis[idx[1] + 1].path, active_page(config))

\* wiki_index Some(0), wikis [/a/f], page /a/a: the expect panics.
C28_WitnessPanic ==
    /\ Made("as_active_page_path_within_wiki")
    /\ called[1].panicked
    /\ config.runtime.wiki_index = Some(0)
    /\ config.wikis = <<HtmlWikiConfig(<<RootDir, "a", "f">>)>>
    /\ active_page(config) = <<RootDir, "a", "a">>

\* Without a wiki_index the page's directory is the wiki and only the file
\* name is left.
C28_WitnessTmpWiki ==
    /\ Made("as_active_page_path_within_wiki")
    /\ config.runtime.wiki_index = None
    /\ active_page(config) = <<RootDir, "a", "f">>
    /\ called[1].out = Some(<<"f">>)

\* C29: path_to_root(path) is none when path is not under the wiki root or
\* is the wiki root itself; otherwise, with n >= 1 components left after
\* the root, it is a path of exactly n-1 ".." components (empty for a file
\* directly in the root). to_active_page_path_to_wiki_root is that value for
\* the active wiki, and the empty path when there is no active wiki or
\* path_to_root is none.
C29_PathToRoot ==
    /\ Made("path_to_root") =>
          LET root == config.wikis[called[1].wiki].path
              path == active_page(config)
              n == Len(path) - Len(root)
          IN  IF ~IsPathPrefix(root, path) \/ path = root
              THEN called[1].out = None
              ELSE /\ n >= 1
                   /\ called[1].out # None
                   /\ Len(called[1].out[1]) = n - 1
                   /\ \A i \in 1..(n - 1) : called[1].out[1][i] = ParentDir
    /\ Made("to_active_page_path_to_wiki_root") =>
          LET idx == config.runtime.wiki_index
              active == idx # None /\ idx[1] + 1 \in DOMAIN config.wikis
          IN  IF active
              THEN LET hops == path_to_root(config.wikis[idx[1] + 1],
                                            active_page(config))
                   IN  called[1].out[1] = IF hops = None THEN <<>> ELSE hops[1]
              ELSE called[1].out[1] = <<>>

\* A page two directories below the root of its wiki: "../..".
C29_Witness ==
    /\ Made("path_to_root")
    /\ config.wikis[called[1].wiki].path = <<>>
    /\ active_page(config) = <<"a", "a", "f">>
    /\ called[1].out = Some(<<ParentDir, ParentDir>>)

\* A file directly in the root: the empty path, not none.
C29_WitnessInRoot ==
    /\ Made("path_to_root")
    /\ config.wikis[called[1].wiki].path = <<RootDir, "a">>
    /\ active_page(config) = <<RootDir, "a", "f">>
    /\ called[1].out = Some(<<>>)

\* The wiki root itself, and a path outside the wiki: none.
C29_WitnessNone ==
    /\ Made("path_to_root")
    /\ called[1].out = None
    /\ config.wikis[called[1].wiki].path = <<RootDir, "a">>
    /\ active_page(config) \in {<<RootDir, "a">>, <<RootDir, "f">>}

\* The active wiki gives its path_to_root.
C29_WitnessActive ==
    /\ Made("to_active_page_path_to_wiki_root")
    /\ config.runtime.wiki_index = Some(1)
    /\ Len(config.wikis) = 2
    /\ called[1].out = Some(<<ParentDir>>)

(***************************************************************************)
(* DefinitionList::try_from: a parsed definition list into stored entities *)
(* (src/vimwiki-server/src/data/elements/blocks/definitions.rs)            *)
(*                                                                         *)
(* The database is the sequence of committed entities and the id of an     *)
(* entity is its place in it.  The parsed list is the ordered sequence of  *)
(* (term, definitions) pairs of the specification; a located element is    *)
(* known by its region, here <<i, 0>> for term i and <<i, j>> for its      *)
(* definition j.  The inline contents of a term or definition are left to  *)
(* InlineElement::try_from, of which only the failure is kept.             *)
(***************************************************************************)
MaxTerms == 2
MaxDefs == 2

Located(region) == [region |-> region]

\* The parsed list with shape[i] definitions under term i.
ParsedList(shape) ==
    [i \in 1..Len(shape) |->
        [term |-> Located(<<i, 0>>),
         defs |-> [j \in 1..shape[i] |-> Located(<<i, j>>)]]]

ParsedLists == {ParsedList(shape) : shape \in SeqsUpTo(0..MaxDefs, MaxTerms)}

\* What can fail: Term::try_from of term i, Definition::try_from of its
\* definition j, the commit of the updated term i, the commit of the list.
FailurePoints(le) ==
    {<<"term", i, 0>> : i \in 1..Len(le)}
       \cup UNION {{<<"definition", i, j>> : j \in 1..Len(le[i].defs)} :
                      i \in 1..Len(le)}
       \cup {<<"commit", i, 0>> : i \in 1..Len(le)}
       \cup {<<"finish", 0, 0>>}

Fails(point) == failing = Some(point)

TermEnt(region, definitions) ==
    [type |-> "Term", region |-> region, definitions |-> definitions]

DefinitionEnt(region) == [type |-> "Definition", region |-> region]

DefinitionListEnt(region, terms, definitions) ==
    [type |-> "DefinitionList", region |-> region, terms |-> terms,
     definitions |-> definitions]

\* finish_and_commit: the entity is stored under a fresh id.
finish_and_commit(db, ent) == Append(db, ent)

\* commit of an entity that has an id: what is stored under it is replaced.
commit(db, id, ent) == [db EXCEPT ![id] = ent]

\* The term is left as it was first committed.
keep_definitions_ids(ent, ids) == ent

set_definitions_ids(ent, ids) == [ent EXCEPT !.definitions = ids]

Converted(id) == [ok |-> TRUE, id |-> id, error |-> None]
ConvertToDatabaseError(point) == [ok |-> FALSE, id |-> 0, error |-> Some(point)]

ListRegion == <<0, 0>>

InitConvert ==
    /\ dlist \in ParsedLists
    /\ failing \in {None} \cup {Some(point) : point \in FailurePoints(dlist)}
    /\ database = <<>>
    /\ convert = [pc |-> "term", i |-> 1, j |-> 1,
                  ent_term |-> None, ent_def_ids |-> <<>>,
                  terms |-> <<>>, definitions |-> <<>>, result |-> None]

Converting(at) == dlist \in ParsedLists /\ convert.pc = at

Return(result) == [convert EXCEPT !.pc = "done", !.result = Some(result)]

\* let mut ent_term = Term::try_from(term)?;  the term is committed with no
\* definitions.
TermTryFrom ==
    /\ Converting("term")
    /\ convert.i <= Len(dlist)
    /\ IF Fails(<<"term", convert.i, 0>>)
       THEN /\ convert' = Return(ConvertToDatabaseError(<<"term", convert.i, 0>>))
            /\ UNCHANGED database
       ELSE LET ent == TermEnt(dlist[convert.i].term.region, <<>>) IN
            /\ database' = finish_and_commit(database, ent)
            /\ convert' = [convert EXCEPT
                  !.pc = "definitions",
                  !.ent_term = Some([id |-> Len(database) + 1, ent |-> ent]),
                  !.ent_def_ids = <<>>,
                  !.j = 1]
    /\ UNCHANGED <<dlist, failing, notConvertVars>>

\* ent_def_ids.push(Definition::try_from(def)?.id());
DefinitionTryFrom ==
    /\ Converting("definitions")
    /\ convert.j <= Len(dlist[convert.i].defs)
    /\ IF Fails(<<"definition", convert.i, convert.j>>)
       THEN /\ convert' = Return(ConvertToDatabaseError(
                                    <<"definition", convert.i, convert.j>>))
            /\ UNCHANGED database
       ELSE /\ database' = finish_and_commit(database,
                  DefinitionEnt(dlist[convert.i].defs[convert.j].region))
            /\ convert' = [convert EXCEPT
                  !.ent_def_ids = Append(@, Len(database) + 1),
                  !.j = @ + 1]
    /\ UNCHANGED <<dlist, failing, notConvertVars>>

\* ent_term.set_definitions_ids(ent_def_ids.clone()); ent_term.commit()?;
\* terms.push(ent_term.id()); definitions.extend(ent_def_ids);
TermCommit ==
    /\ Converting("definitions")
    /\ convert.j > Len(dlist[convert.i].defs)
    /\ LET id == convert.ent_term[1].id
           ent == set_definitions_ids(convert.ent_term[1].ent,
                                      convert.ent_def_ids)
       IN  IF Fails(<<"commit", convert.i, 0>>)
           THEN /\ convert' = Return(ConvertToDatabaseError(
                                        <<"commit", convert.i, 0>>))
                /\ UNCHANGED database
           ELSE /\ database' = commit(database, id, ent)
                /\ convert' = [convert EXCEPT
                      !.pc = "term",
                      !.i = @ + 1,
                      !.ent_term = Some([id |-> id, ent |-> ent]),
                      !.terms = Append(@, id),
                      !.definitions = @ \o convert.ent_def_ids]
    /\ UNCHANGED <<dlist, failing, notConvertVars>>

\* Self::build().region(region).terms(terms).definitions(definitions)
\*     .finish_and_commit()
ListFinishAndCommit ==
    /\ Converting("term")
    /\ convert.i > Len(dlist)
    /\ IF Fails(<<"finish", 0, 0>>)
       THEN /\ convert' = Return(ConvertToDatabaseError(<<"finish", 0, 0>>))
            /\ UNCHANGED database
       ELSE /\ database' = finish_and_commit(database,
                  DefinitionListEnt(ListRegion, convert.terms,
                                    convert.definitions))
            /\ convert' = Return(Converted(Len(database) + 1))
    /\ UNCHANGED <<dlist, failing, notConvertVars>>

NextConvert ==
    \/ TermTryFrom
    \/ DefinitionTryFrom
    \/ TermCommit
    \/ ListFinishAndCommit

InitConvertOnly ==
    InitConvert /\ IdlePage /\ IdleInline /\ IdleLink /\ IdleNormalize
    /\ IdleTree /\ IdleBuilds /\ IdleQuote /\ IdleConfig

SpecConvert == InitConvertOnly /\ [][NextConvert]_vars

(***************************************************************************)
(* Properties of DefinitionList::try_from                                  *)
(***************************************************************************)
ConvertReturned == dlist \in ParsedLists /\ convert.pc = "done"

Stored(type) == {id \in DOMAIN database : database[id].type = type}

\* The regions of the entities stored under ids, in the order of ids.
RegionsOf(ids) == [k \in DOMAIN ids |-> database[ids[k]].region]

RECURSIVE DefinitionRegions(_, _)
DefinitionRegions(le, i) ==
    IF i > Len(le) THEN <<>>
    ELSE [j \in 1..Len(le[i].defs) |-> le[i].defs[j].region]
            \o DefinitionRegions(le, i + 1)

\* C30: after a successful conversion the stored list's terms are the term
\* entities in source order, its definitions are the concatenation in term
\* order of each term's definition entities, and each stored Term ends with
\* exactly the ids of its own definitions in order; if converting a term or
\* a definition fails, the conversion returns that error and no
\* DefinitionList entity is committed.
C30_ConversionKeepsOrder ==
    ConvertReturned =>
       LET result == convert.result[1] IN
       IF result.ok
       THEN LET stored == database[result.id] IN
            /\ failing = None
            /\ stored.type = "DefinitionList"
            /\ Stored("DefinitionList") = {result.id}
            /\ Len(stored.terms) = Len(dlist)
            /\ \A i \in 1..Len(dlist) :
                  LET term == database[stored.terms[i]] IN
                  /\ term.type = "Term"
                  /\ term.region = dlist[i].term.region
                  /\ Len(term.definitions) = Len(dlist[i].defs)
                  /\ \A j \in 1..Len(dlist[i].defs) :
                        /\ database[term.definitions[j]].type = "Definition"
                        /\ database[term.definitions[j]].region
                              = dlist[i].defs[j].region
            /\ stored.definitions
                  = Concat([i \in 1..Len(dlist) |->
                               database[stored.terms[i]].definitions])
            /\ RegionsOf(stored.definitions) = DefinitionRegions(dlist, 1)
       ELSE /\ failing = result.error
            /\ Stored("DefinitionList") = {}

\* Every term is first committed with no definitions: while its definitions
\* are being converted the stored term has none.
C30_TermFirstWithoutDefinitions ==
    (dlist \in ParsedLists /\ convert.pc = "definitions") =>
       database[convert.ent_term[1].id]
          = TermEnt(dlist[convert.i].term.region, <<>>)

\* Two terms, the first with two definitions and the second with one, all
\* converted and the list committed.
C30_Witness ==
    /\ ConvertReturned
    /\ convert.result[1].ok
    /\ Len(dlist) = 2
    /\ Len(dlist[1].defs) = 2
    /\ Len(dlist[2].defs) = 1
    /\ Len(database[convert.result[1].id].definitions) = 3
    /\ Len(database[database[convert.result[1].id].terms[1]].definitions) = 2

\* A definition of the second term fails after the first term was stored:
\* the error is returned and no list is stored.
C30_WitnessFailure ==
    /\ ConvertReturned
    /\ ~convert.result[1].ok
    /\ convert.result[1].error = Some(<<"definition", 2, 1>>)
    /\ Stored("Term") # {}
    /\ Stored("DefinitionList") = {}

\* A term's definitions being converted while the stored term has none yet.
C30_WitnessFirstCommit ==
    /\ dlist \in ParsedLists
    /\ convert.pc = "definitions"
    /\ convert.ent_def_ids # <<>>
    /\ database[convert.ent_term[1].id].definitions = <<>>

====
